---- MODULE Spec2Model ----
(***************************************************************************)
(* Numerical engines of physikart: the wave string (WavePhysics.ts), the   *)
(* epicycle composer (OrbitMath), the catenary solver and the pendulum     *)
(* overlays (ChaosSimulation.ts).                                          *)
(*                                                                         *)
(* A JavaScript number is modelled as an exact rational <<n, d>> (d > 0,   *)
(* lowest terms) extended with the IEEE special values NaN = <<0, 0>>,     *)
(* +Infinity = <<1, 0>> and -Infinity = <<-1, 0>>.  Arithmetic follows     *)
(* IEEE-754 on the special values and is exact on the finite ones: the     *)
(* model has no rounding and does not distinguish -0 from +0.              *)
(***************************************************************************)
EXTENDS Integers, Sequences, FiniteSets, TLC

VARIABLES
    numPoints,      \* WaveString.numPoints
    tension,        \* WaveString.tension
    mass,           \* WaveString.mass
    damping,        \* WaveString.damping
    length,         \* WaveString.length
    positions,      \* WaveString.positions, a function on 0..numPoints-1
    velocities,     \* WaveString.velocities, a function on 0..numPoints-1
    call,           \* the last WaveString method called, with its arguments
    old,            \* positions and velocities as they were before that call
    nCalls,         \* number of method calls made so far
    circles,        \* epicycles: the chain of circles, a sequence
    time,           \* epicycles: the time last passed to calculateAllPositions
    allPositions,   \* epicycles: what calculateAllPositions(circles, time) returned
    deltaTime,      \* epicycles: the deltaTime last passed to updateCircles
    advanced,       \* epicycles: what updateCircles(circles, deltaTime) returned
    anchor1,        \* catenary: first anchor passed to calculateCatenary
    anchor2,        \* catenary: second anchor passed to calculateCatenary
    chainLength,    \* catenary: chain length passed to calculateCatenary
    branch,         \* catenary: the branch calculateCatenary took
    solved,         \* catenary: what the parameter solver returned
    points,         \* catenary: what calculateCatenary returned
    pc,             \* catenary: where calculateCatenary is
    baseState,      \* pendulum: baseState passed to createOverlays
    count,          \* pendulum: count passed to createOverlays
    randomness,     \* pendulum: randomness passed to createOverlays
    overlays,       \* pendulum: what createOverlays returned
    heap,           \* objects: every object built so far, by reference
    circleRefs,     \* objects: EpicycleCanvas circles, a sequence of references
    initialState,   \* objects: reference of the page's initialState object
    stateRefs,      \* objects: PendulumCanvas states, a sequence of references
    pendulumParams, \* objects: the PendulumParams of the page
    lastCall,       \* objects: the last call, its argument and result references
    positionsArray, \* arrays: which array this.positions refers to
    returned,       \* arrays: the array getPositions last returned, then and now
    samples,        \* harmonics: positions passed to analyzeHarmonics
    numHarmonics,   \* harmonics: numHarmonics passed to analyzeHarmonics
    harmonics,      \* harmonics: what analyzeHarmonics returned
    invoked,        \* calls: the epicycle function last called, with its arguments
    outcome,        \* calls: what that call returned or threw
    driver,         \* frames: the canvas component whose animate runs
    mode,           \* frames: WaveCanvas mode, "pluck" or "drive"
    lastTime,       \* frames: lastTimeRef.current, in ms
    frameTime,      \* frames: the time state of the component, in s
    frameDelta,     \* frames: deltaTime (dt for the pendulum) of the last frame, in s
    engineCalls,    \* frames: the engine calls the last frame made, in order
    frames,         \* frames: number of frames run
    trailLength,    \* frames: the trailLength prop
    showEnergy,     \* frames: the showEnergy prop
    stepped,        \* frames: per pendulum overlay, the number of rk4Step calls applied
    trails,         \* frames: the trails, one per overlay (one for the epicycles)
    energyHistory,  \* frames: the energy history
    nodeHarmonic,   \* nodes: harmonic passed to getNodes and getAntinodes
    nodePoints,     \* nodes: numPoints passed to getNodes and getAntinodes
    nodes,          \* nodes: what getNodes returned
    antinodes,      \* nodes: what getAntinodes returned
    nodeCalls,      \* nodes: which of the two functions have been called
    initialCircles, \* canvas: the circles prop of EpicycleCanvas
    canvasCircles,  \* canvas: the circles state
    canvasTime,     \* canvas: the time state, in s
    canvasLastTime, \* canvas: lastTimeRef.current, in ms since mounting
    canvasTrail,    \* canvas: the trail state
    canvasTrailLength,\* canvas: the trailLength prop
    canvasDrawn,    \* canvas: the positions the draw effect last computed
    anchorList,     \* anchors: the anchors state of CatenaryCanvas
    draggingAnchor, \* anchors: the draggingAnchor state, an id or NoAnchor
    clock,          \* anchors: the last value Date.now() returned, in ms
    restParams,     \* rest: the PendulumParams passed to rk4Step
    restState,      \* rest: the state, stepped from the hanging rest state
    restDt,         \* rest: the dt of the last rk4Step call
    restSteps       \* rest: the number of rk4Step calls so far

waveVars == <<numPoints, tension, mass, damping, length, positions,
              velocities, call, old, nCalls>>

epiVars == <<circles, time, allPositions, deltaTime, advanced>>

catVars == <<anchor1, anchor2, chainLength, branch, solved, points, pc>>

pendulumVars == <<baseState, count, randomness, overlays>>

objectVars == <<heap, circleRefs, initialState, stateRefs, pendulumParams, lastCall>>

arrayVars == <<positionsArray, returned>>

harmonicVars == <<samples, numHarmonics, harmonics>>

callVars == <<invoked, outcome>>

frameVars == <<driver, mode, lastTime, frameTime, frameDelta, engineCalls, frames, trailLength, showEnergy, stepped, trails, energyHistory>>

nodeVars == <<nodeHarmonic, nodePoints, nodes, antinodes, nodeCalls>>

canvasVars == <<initialCircles, canvasCircles, canvasTime, canvasLastTime, canvasTrail, canvasTrailLength, canvasDrawn>>

anchorVars == <<anchorList, draggingAnchor, clock>>

restVars == <<restParams, restState, restDt, restSteps>>

vars == <<waveVars, epiVars, catVars, pendulumVars, objectVars,
         arrayVars,
         harmonicVars,
         callVars,
         frameVars,
         nodeVars,
         canvasVars,
         anchorVars,
         restVars>>

----------------------------------------------------------------------------
(* Bounds of the model *)

MaxPoints == 5

MaxCalls == 3

MaxTime == 4

MaxCount == 5

MaxObjects == 5

MaxSamples == 3

MaxHarmonics == 4

MaxFrames == 3

\* Largest harmonic and largest numPoints passed to getNodes and getAntinodes.
MaxNodeHarmonic == 6

MaxNodePoints == 9

\* Largest number of anchors on the catenary canvas.
MaxAnchors == 4

\* Largest number of ms Date.now() advances over the pointer events.
MaxClock == 1

\* Largest number of consecutive rk4Step calls from the rest state.
MaxSteps == 3

----------------------------------------------------------------------------
(* JavaScript numbers *)

Abs(n) == IF n < 0 THEN -n ELSE n

Sign(n) == IF n < 0 THEN -1 ELSE IF n > 0 THEN 1 ELSE 0

RECURSIVE GCD(_, _)
GCD(a, b) == IF b = 0 THEN a ELSE GCD(b, a % b)

\* The number n/d in lowest terms; n/0 is an infinity or NaN.
Q(n, d) ==
    IF d = 0 THEN <<Sign(n), 0>>
    ELSE LET g == GCD(Abs(n), Abs(d))
         IN  <<Sign(n) * Sign(d) * (Abs(n) \div g), Abs(d) \div g>>

I(n) == <<n, 1>>

NaN == <<0, 0>>

PosInf == <<1, 0>>

NegInf == <<-1, 0>>

isFinite(x) == x[2] # 0

FNeg(x) == <<-x[1], x[2]>>

FAbs(x) == <<Abs(x[1]), x[2]>>

FAdd(a, b) ==
    IF a = NaN \/ b = NaN THEN NaN
    ELSE IF a[2] = 0 /\ b[2] = 0 THEN (IF a = b THEN a ELSE NaN)
    ELSE IF a[2] = 0 THEN a
    ELSE IF b[2] = 0 THEN b
    ELSE LET g == GCD(a[2], b[2])
         IN  Q(a[1] * (b[2] \div g) + b[1] * (a[2] \div g), (a[2] \div g) * b[2])

FSub(a, b) == FAdd(a, FNeg(b))

FMul(a, b) ==
    IF a = NaN \/ b = NaN THEN NaN
    ELSE IF a[2] = 0 \/ b[2] = 0
         THEN (IF a[1] = 0 \/ b[1] = 0 THEN NaN ELSE <<Sign(a[1]) * Sign(b[1]), 0>>)
    ELSE LET g1 == GCD(Abs(a[1]), b[2])
             g2 == GCD(Abs(b[1]), a[2])
         IN  Q((a[1] \div g1) * (b[1] \div g2), (a[2] \div g2) * (b[2] \div g1))

FDiv(a, b) ==
    IF a = NaN \/ b = NaN THEN NaN
    ELSE IF a[2] = 0
         THEN (IF b[2] = 0 THEN NaN
               ELSE <<a[1] * (IF b[1] < 0 THEN -1 ELSE 1), 0>>)
    ELSE IF b[2] = 0 THEN I(0)
    ELSE IF b[1] = 0 THEN <<Sign(a[1]), 0>>
    ELSE FMul(a, <<Sign(b[1]) * b[2], Abs(b[1])>>)

\* n1/d1 < n2/d2 for d1, d2 > 0, by comparing the continued fractions (no
\* product is formed, so large denominators are compared exactly).
RECURSIVE RatLt(_, _, _, _)
RatLt(n1, d1, n2, d2) ==
    IF n1 \div d1 # n2 \div d2 THEN n1 \div d1 < n2 \div d2
    ELSE IF n2 % d2 = 0 THEN FALSE
    ELSE IF n1 % d1 = 0 THEN TRUE
    ELSE RatLt(d2, n2 % d2, d1, n1 % d1)

\* a < b; false when either side is NaN, as in IEEE-754.
FLt(a, b) ==
    /\ a # NaN
    /\ b # NaN
    /\ IF a[2] = 0 \/ b[2] = 0
       THEN a # b /\ (a = NegInf \/ b = PosInf)
       ELSE RatLt(a[1], a[2], b[1], b[2])

FGt(a, b) == FLt(b, a)

FLe(a, b) == a # NaN /\ b # NaN /\ (a = b \/ FLt(a, b))

MathMax(a, b) == IF a = NaN \/ b = NaN THEN NaN ELSE IF FLt(a, b) THEN b ELSE a

MathMin(a, b) == IF a = NaN \/ b = NaN THEN NaN ELSE IF FLt(b, a) THEN b ELSE a

MathFloor(x) == IF x[2] = 0 THEN x ELSE I(x[1] \div x[2])

\* Angles are held in units of pi/2 (quarter turns), so that Math.PI is 2.
\* On a whole number of quarter turns the cosine and the sine are exactly
\* 1, 0, -1, 0 and 0, 1, 0, -1; every angle the model computes is such a
\* number.  Both are NaN for a non-finite angle.
MathPI == I(2)

MathCos(a) ==
    IF a[2] = 0 THEN NaN
    ELSE LET q == (a[1] \div a[2]) % 4
         IN  IF q = 0 THEN I(1) ELSE IF q = 2 THEN I(-1) ELSE I(0)

MathSin(a) ==
    IF a[2] = 0 THEN NaN
    ELSE LET q == (a[1] \div a[2]) % 4
         IN  IF q = 1 THEN I(1) ELSE IF q = 3 THEN I(-1) ELSE I(0)

----------------------------------------------------------------------------
(* WaveString *)

Indices == 0 .. numPoints - 1

Interior == 1 .. numPoints - 2

Zeros(n) == [i \in 0 .. n - 1 |-> I(0)]

\* Mutant of PluckIdx: Math.round in place of Math.floor.
PluckIdxRounded(position) ==
    MathFloor(FAdd(FMul(position, I(numPoints - 1)), Q(1, 2)))

\* pluck: Math.floor(position * (numPoints - 1))
PluckIdx(position) == MathFloor(FMul(position, I(numPoints - 1)))

\* pluck: the guard idx > 0 && idx < numPoints - 1
PluckGuard(idx) == FGt(idx, I(0)) /\ FLt(idx, I(numPoints - 1))

ClampAmplitude(amplitude) == MathMax(I(-50), MathMin(I(50), amplitude))

\* pluck: scale of sample i for the pluck index idx (a whole number)
PluckScale(i, idx) ==
    IF i <= idx THEN FDiv(I(i), I(idx))
    ELSE FDiv(I(numPoints - 1 - i), I(numPoints - 1 - idx))

\* Mutant of PluckVelocity: the velocity is not reset.
PluckVelocityKept(i) == velocities[i]

\* pluck: the velocity given to interior sample i ("start from rest")
PluckVelocity(i) == I(0)

Pluck(position, amplitude) ==
    LET clampedAmplitude == ClampAmplitude(amplitude)
        idx == PluckIdx(position)
    IN  /\ nCalls < MaxCalls
        /\ IF PluckGuard(idx)
           THEN /\ positions' = [i \in Indices |->
                       IF i \in Interior
                       THEN FMul(clampedAmplitude, PluckScale(i, idx[1]))
                       ELSE positions[i]]
                /\ velocities' = [i \in Indices |->
                       IF i \in Interior THEN PluckVelocity(i) ELSE velocities[i]]
           ELSE UNCHANGED <<positions, velocities>>
        /\ call' = [op |-> "pluck", position |-> position, amplitude |-> amplitude]
        /\ old' = [positions |-> positions, velocities |-> velocities]
        /\ nCalls' = nCalls + 1
        /\ UNCHANGED <<numPoints, tension, mass, damping, length>>

DrivePoints == <<numPoints \div 4, numPoints \div 2, (3 * numPoints) \div 4>>

\* Mutant of DriveOne: the interior guard is missing.
DriveOneUnguarded(vel, idx, force) ==
    [vel EXCEPT ![idx] = FAdd(vel[idx], FMul(force, Q(2, 100)))]

\* Mutant of DriveOne: the velocity is set, not added to.
DriveOneAssigned(vel, idx, force) ==
    IF idx > 0 /\ idx < numPoints - 1
    THEN [vel EXCEPT ![idx] = FMul(force, Q(2, 100))]
    ELSE vel

\* drive: the body of the forEach callback for one drive point
DriveOne(vel, idx, force) ==
    IF idx > 0 /\ idx < numPoints - 1
    THEN [vel EXCEPT ![idx] = FAdd(vel[idx], FMul(force, Q(2, 100)))]
    ELSE vel

DriveForce(frequency, t, amplitude) ==
    FMul(amplitude, MathSin(FMul(FMul(FMul(I(2), MathPI), frequency), t)))

Drive(frequency, t, amplitude) ==
    LET force == DriveForce(frequency, t, amplitude)
        v1 == DriveOne(velocities, DrivePoints[1], force)
        v2 == DriveOne(v1, DrivePoints[2], force)
        v3 == DriveOne(v2, DrivePoints[3], force)
    IN  /\ nCalls < MaxCalls
        /\ velocities' = v3
        /\ call' = [op |-> "drive", frequency |-> frequency, time |-> t,
                    amplitude |-> amplitude]
        /\ old' = [positions |-> positions, velocities |-> velocities]
        /\ nCalls' = nCalls + 1
        /\ UNCHANGED <<numPoints, tension, mass, damping, length, positions>>

\* Mutant of PositionUnstable: no position is found unstable.
PositionUnchecked(p) == FALSE

\* Mutant of PositionUnstable: the magnitude is not checked.
PositionNotFinite(p) == ~isFinite(p)

\* update: the stability check on the position
PositionUnstable(p) == ~isFinite(p) \/ FGt(FAbs(p), I(500))

\* update: the stability check on the velocity
VelocityUnstable(v) == ~isFinite(v) \/ FGt(FAbs(v), I(1000))

\* Mutant of UpdatePoint: the position is advanced with the old velocity.
UpdatePointExplicit(i, dt) ==
    LET k == FMul(FDiv(tension, mass), Q(1, 10))
        dx == FDiv(length, I(numPoints - 1))
        d2y_dx2 == FDiv(FAdd(FSub(positions[i + 1], FMul(I(2), positions[i])),
                             positions[i - 1]),
                        FMul(dx, dx))
        acceleration == FSub(FMul(k, d2y_dx2),
                             FMul(FMul(damping, velocities[i]), I(20)))
        v0 == FAdd(velocities[i], FMul(acceleration, dt))
        p0 == FAdd(positions[i], FMul(velocities[i], dt))
        p1 == IF PositionUnstable(p0) THEN I(0) ELSE p0
        v1 == IF PositionUnstable(p0) THEN I(0) ELSE v0
        v2 == IF VelocityUnstable(v1) THEN I(0) ELSE v1
    IN  <<p1, v2>>

\* update: the new <<position, velocity>> of interior sample i
UpdatePoint(i, dt) ==
    LET k == FMul(FDiv(tension, mass), Q(1, 10))
        dx == FDiv(length, I(numPoints - 1))
        d2y_dx2 == FDiv(FAdd(FSub(positions[i + 1], FMul(I(2), positions[i])),
                             positions[i - 1]),
                        FMul(dx, dx))
        acceleration == FSub(FMul(k, d2y_dx2),
                             FMul(FMul(damping, velocities[i]), I(20)))
        v0 == FAdd(velocities[i], FMul(acceleration, dt))
        p0 == FAdd(positions[i], FMul(v0, dt))
        p1 == IF PositionUnstable(p0) THEN I(0) ELSE p0
        v1 == IF PositionUnstable(p0) THEN I(0) ELSE v0
        v2 == IF VelocityUnstable(v1) THEN I(0) ELSE v1
    IN  <<p1, v2>>

Update(dt) ==
    /\ nCalls < MaxCalls
    /\ positions' = [i \in Indices |->
           IF i \in Interior THEN UpdatePoint(i, dt)[1] ELSE I(0)]
    /\ velocities' = [i \in Indices |->
           IF i \in Interior THEN UpdatePoint(i, dt)[2] ELSE I(0)]
    /\ call' = [op |-> "update", dt |-> dt]
    /\ old' = [positions |-> positions, velocities |-> velocities]
    /\ nCalls' = nCalls + 1
    /\ UNCHANGED <<numPoints, tension, mass, damping, length>>

Reset ==
    /\ nCalls < MaxCalls
    /\ positions' = [i \in DOMAIN positions |-> I(0)]
    /\ velocities' = [i \in DOMAIN velocities |-> I(0)]
    /\ call' = [op |-> "reset"]
    /\ old' = [positions |-> positions, velocities |-> velocities]
    /\ nCalls' = nCalls + 1
    /\ UNCHANGED <<numPoints, tension, mass, damping, length>>

\* Arguments the calls are made with
PluckPositions == {Q(0, 1), Q(1, 8), Q(1, 2), Q(7, 10), Q(1, 1)}

Amplitudes == {I(30), I(-80), NaN}

DriveFrequencies == {I(1), I(3)}

DriveTimes == {Q(1, 4), Q(1, 2)}

DriveAmplitudes == {I(15), I(42500), PosInf}

TimeSteps == {Q(1, 2), I(2), NaN, PosInf}

\* new WaveString(numPoints, tension, mass, damping, length)
WaveNew ==
    /\ numPoints \in 2 .. MaxPoints
    /\ \E ps \in {<<I(10), I(1), I(0), I(1)>>,
                  <<I(500), Q(1, 100), Q(1, 10), I(1)>>} :
          /\ tension = ps[1]
          /\ mass = ps[2]
          /\ damping = ps[3]
          /\ length = ps[4]
    /\ positions = Zeros(numPoints)
    /\ velocities = Zeros(numPoints)
    /\ call = [op |-> "new"]
    /\ old = [positions |-> Zeros(numPoints), velocities |-> Zeros(numPoints)]
    /\ nCalls = 0

\* No WaveString is in use.
WaveIdle ==
    /\ numPoints = 2
    /\ tension = I(0)
    /\ mass = I(0)
    /\ damping = I(0)
    /\ length = I(0)
    /\ positions = Zeros(2)
    /\ velocities = Zeros(2)
    /\ call = [op |-> "none"]
    /\ old = [positions |-> Zeros(2), velocities |-> Zeros(2)]
    /\ nCalls = 0

----------------------------------------------------------------------------
(* WaveString arrays: this.positions is a reference to an array.  pluck    *)
(* and reset write into the array it refers to, update makes it refer to   *)
(* a new array, and getPositions hands the reference out.                  *)

NoArray == [array |-> 0, at |-> <<>>, now |-> <<>>]

\* The array handed out, after a call that wrote the positions in place.
WrittenInPlace == IF returned.array = positionsArray
                  THEN [returned EXCEPT !.now = positions']
                  ELSE returned

\* getPositions(): return this.positions
GetPositions ==
    /\ returned' = [array |-> positionsArray, at |-> positions, now |-> positions]
    /\ UNCHANGED <<waveVars, positionsArray>>

\* pluck assigns this.positions[i] for each interior i.
PluckArray(position, amplitude) ==
    /\ Pluck(position, amplitude)
    /\ positionsArray' = positionsArray
    /\ returned' = WrittenInPlace

\* drive reads this.positions.length and writes this.velocities only.
DriveArray(frequency, t, amplitude) ==
    /\ Drive(frequency, t, amplitude)
    /\ UNCHANGED <<positionsArray, returned>>

\* update ends with this.positions = newPositions, a copy made by [...].
UpdateArray(dt) ==
    /\ Update(dt)
    /\ positionsArray' = positionsArray + 1
    /\ UNCHANGED returned

\* reset: this.positions.fill(0)
ResetArray ==
    /\ Reset
    /\ positionsArray' = positionsArray
    /\ returned' = WrittenInPlace

\* Finite arguments
FiniteAmplitudes == {a \in Amplitudes : isFinite(a)}

FiniteDriveAmplitudes == {a \in DriveAmplitudes : isFinite(a)}

FiniteTimeSteps == {dt \in TimeSteps : isFinite(dt)}

ArraysStart ==
    /\ positionsArray = 1
    /\ returned = NoArray

ArraysIdle ==
    /\ positionsArray = 0
    /\ returned = NoArray

----------------------------------------------------------------------------
(* analyzeHarmonics (WavePhysics.ts).  positions is a sequence here, so    *)
(* the code's positions[i] is ps[i + 1].                                   *)

\* Mutant of SampleSkipped: no sample is skipped.
SampleNeverSkipped(pos) == FALSE

\* if (!isFinite(pos)) continue
SampleSkipped(pos) == ~isFinite(pos)

\* The value of amplitude after the inner loop has run for i = 0 .. m - 1.
RECURSIVE ProjectUpTo(_, _, _)
ProjectUpTo(ps, n, m) ==
    IF m = 0 THEN I(0)
    ELSE LET amplitude == ProjectUpTo(ps, n, m - 1)
             i == m - 1
             x == FDiv(I(i), I(Len(ps) - 1))
             pos == ps[i + 1]
         IN  IF SampleSkipped(pos) THEN amplitude
             ELSE FAdd(amplitude, FMul(pos, MathSin(FMul(FMul(I(n), MathPI), x))))

HarmonicAmplitude(ps, n) ==
    LET amplitude == FDiv(FAbs(ProjectUpTo(ps, n, Len(ps))), I(Len(ps)))
    IN  IF ~isFinite(amplitude) THEN I(0) ELSE amplitude

analyzeHarmonics(ps, k) == [n \in 1 .. k |-> HarmonicAmplitude(ps, n)]

\* Every sine the call takes is at a whole number of quarter turns (or at
\* NaN, for a single sample), where MathSin is exact.
HarmonicsExact(ps, k) ==
    Len(ps) >= 2 =>
        \A n \in 1 .. k, i \in 0 .. Len(ps) - 1 : (2 * n * i) % (Len(ps) - 1) = 0

SampleValues == {I(0), I(3), I(-6), NaN, PosInf, NegInf}

RECURSIVE SeqsOf(_, _)
SeqsOf(S, n) ==
    IF n = 0 THEN {<<>>}
    ELSE {Append(q, v) : q \in SeqsOf(S, n - 1), v \in S}

AnalyzeHarmonics ==
    /\ harmonics = <<"none">>
    /\ harmonics' = analyzeHarmonics(samples, numHarmonics)
    /\ UNCHANGED <<samples, numHarmonics>>

HarmonicsStart ==
    /\ numHarmonics \in 0 .. MaxHarmonics
    /\ samples \in UNION {SeqsOf(SampleValues, n) : n \in 0 .. MaxSamples}
    /\ HarmonicsExact(samples, numHarmonics)
    /\ harmonics = <<"none">>

HarmonicsIdle ==
    /\ samples = <<>>
    /\ numHarmonics = 0
    /\ harmonics = <<"none">>

----------------------------------------------------------------------------
(* Epicycles (OrbitMath) *)

Circle(x, y, radius, speed, angle) ==
    [x |-> x, y |-> y, radius |-> radius, speed |-> speed, angle |-> angle]

Point(x, y) == [x |-> x, y |-> y]

\* Mutant of PositionsUpTo: the initial angle of each circle is ignored.
RECURSIVE PositionsUpToNoPhase(_, _, _)
PositionsUpToNoPhase(cs, t, i) ==
    IF i = 0 THEN <<Point(cs[1].x, cs[1].y)>>
    ELSE LET prev == PositionsUpToNoPhase(cs, t, i - 1)
             angle == FMul(cs[i].speed, t)
         IN  Append(prev, Point(FAdd(prev[i].x, FMul(cs[i].radius, MathCos(angle))),
                                FAdd(prev[i].y, FMul(cs[i].radius, MathSin(angle)))))

\* calculateAllPositions: the points pushed up to and including the one of
\* circle i (circle 1 is circles[0] of the source); i = 0 is the root origin.
RECURSIVE PositionsUpTo(_, _, _)
PositionsUpTo(cs, t, i) ==
    IF i = 0 THEN <<Point(cs[1].x, cs[1].y)>>
    ELSE LET prev == PositionsUpTo(cs, t, i - 1)
             circle == cs[i]
             angle == FAdd(circle.angle, FMul(circle.speed, t))
             x == FAdd(prev[i].x, FMul(circle.radius, MathCos(angle)))
             y == FAdd(prev[i].y, FMul(circle.radius, MathSin(angle)))
         IN  Append(prev, Point(x, y))

calculateAllPositions(cs, t) == PositionsUpTo(cs, t, Len(cs))

\* Mutant of updateCircles: the angle advances by deltaTime, not speed * deltaTime.
updateCirclesNoSpeed(cs, dt) ==
    [i \in 1 .. Len(cs) |-> [cs[i] EXCEPT !.angle = FAdd(cs[i].angle, dt)]]

updateCircles(cs, dt) ==
    [i \in 1 .. Len(cs) |->
        [cs[i] EXCEPT !.angle = FAdd(cs[i].angle, FMul(cs[i].speed, dt))]]

\* The preset chains whose speeds are whole numbers, the ellipse also with
\* its second circle a quarter turn on.
Chains ==
    { <<Circle(I(400), I(300), I(150), I(1), I(0))>>,
      <<Circle(I(400), I(300), I(120), I(1), I(0)),
        Circle(I(0), I(0), I(30), I(1), MathPI)>>,
      <<Circle(I(400), I(300), I(120), I(1), I(0)),
        Circle(I(0), I(0), I(30), I(1), I(1))>>,
      <<Circle(I(400), I(300), I(100), I(1), I(0)),
        Circle(I(0), I(0), I(40), I(-3), I(0))>>,
      <<Circle(I(400), I(300), I(100), I(1), I(0)),
        Circle(I(0), I(0), I(60), I(3), I(0)),
        Circle(I(0), I(0), I(30), I(-2), I(0))>>,
      <<Circle(I(400), I(300), I(120), I(1), I(0)),
        Circle(I(0), I(0), I(70), I(3), I(0)),
        Circle(I(0), I(0), I(40), I(-5), I(0)),
        Circle(I(0), I(0), I(20), I(7), I(0))>> }

\* Times and time deltas: whole numbers of quarter turns at speed 1.
Times == {I(k) : k \in 0 .. MaxTime}

CalculateAllPositions(t) ==
    /\ time' = t
    /\ allPositions' = calculateAllPositions(circles, t)
    /\ UNCHANGED <<circles, deltaTime, advanced>>

UpdateCircles(dt) ==
    /\ deltaTime' = dt
    /\ advanced' = updateCircles(circles, dt)
    /\ UNCHANGED <<circles, time, allPositions>>

EpiStart ==
    /\ circles \in Chains
    /\ time = I(0)
    /\ allPositions = <<>>
    /\ deltaTime = I(0)
    /\ advanced = <<>>

\* No chain is in use.
EpiIdle ==
    /\ circles = <<>>
    /\ time = I(0)
    /\ allPositions = <<>>
    /\ deltaTime = I(0)
    /\ advanced = <<>>

----------------------------------------------------------------------------
(* Calls of the epicycle functions with any chain, the empty one included, *)
(* and how each call ends: with a returned value or a thrown exception.    *)

\* Mutant of EpicycleUpTo: only the deferent, circles[0], moves the point.
RECURSIVE EpicycleUpToDeferentOnly(_, _, _)
EpicycleUpToDeferentOnly(cs, t, i) ==
    IF i = 0 THEN Point(cs[1].x, cs[1].y)
    ELSE LET prev == EpicycleUpToDeferentOnly(cs, t, i - 1)
             angle == FAdd(cs[i].angle, FMul(cs[i].speed, t))
         IN  IF i = 1
             THEN Point(FAdd(prev.x, FMul(cs[i].radius, MathCos(angle))),
                        FAdd(prev.y, FMul(cs[i].radius, MathSin(angle))))
             ELSE prev

\* calculateEpicyclePosition: x and y after the loop has run for the first
\* i circles.
RECURSIVE EpicycleUpTo(_, _, _)
EpicycleUpTo(cs, t, i) ==
    IF i = 0 THEN Point(cs[1].x, cs[1].y)
    ELSE LET prev == EpicycleUpTo(cs, t, i - 1)
             circle == cs[i]
             angle == FAdd(circle.angle, FMul(circle.speed, t))
         IN  Point(FAdd(prev.x, FMul(circle.radius, MathCos(angle))),
                   FAdd(prev.y, FMul(circle.radius, MathSin(angle))))

calculateEpicyclePosition(cs, t) == EpicycleUpTo(cs, t, Len(cs))

\* circles[0] is undefined when the array is empty, and reading a property
\* of undefined throws a TypeError.
ReadsUndefined(cs) == Len(cs) = 0

Returned(v) == [threw |-> "none", value |-> v]

Threw(e) == [threw |-> e, value |-> <<>>]

CallChains == Chains \cup {<<>>}

CallCalculateEpicyclePosition(cs, t) ==
    /\ invoked' = [fn |-> "calculateEpicyclePosition", circles |-> cs, time |-> t]
    /\ outcome' = IF ReadsUndefined(cs) THEN Threw("TypeError")
                  ELSE Returned(calculateEpicyclePosition(cs, t))

CallCalculateAllPositions(cs, t) ==
    /\ invoked' = [fn |-> "calculateAllPositions", circles |-> cs, time |-> t]
    /\ outcome' = IF ReadsUndefined(cs) THEN Threw("TypeError")
                  ELSE Returned(calculateAllPositions(cs, t))

\* updateCircles maps over the array and reads no element of an empty one.
CallUpdateCircles(cs, dt) ==
    /\ invoked' = [fn |-> "updateCircles", circles |-> cs, time |-> dt]
    /\ outcome' = Returned(updateCircles(cs, dt))

CallsStart ==
    /\ invoked = [fn |-> "none", circles |-> <<>>, time |-> I(0)]
    /\ outcome = Returned(<<>>)

CallsIdle ==
    /\ invoked = [fn |-> "idle", circles |-> <<>>, time |-> I(0)]
    /\ outcome = Returned(<<>>)

----------------------------------------------------------------------------
(* Catenary (calculateCatenary)                                              *)
(*                                                                           *)
(* Math.cosh is transcendental.  A sampled height is kept in the exact form  *)
(* rat + SUM coef * cosh(u) over distinct arguments u > 0: cosh is even,     *)
(* cosh(0) = 1, and the values cosh(u) at distinct positive rational u are   *)
(* linearly independent over the rationals together with 1, so two heights   *)
(* are equal exactly when their forms are equal.  The solvers only compare   *)
(* their transcendental residuals with thresholds; the residuals are         *)
(* supplied by an oracle.                                                    *)

numPointsCatenary == 100

maxIterationsSymmetric == 100

maxIterationsAsymmetric == 50

YNum(r) == [rat |-> r, cosh |-> {}]

\* Math.cosh(u)
MathCosh(u) ==
    IF u = NaN THEN YNum(NaN)
    ELSE IF ~isFinite(u) THEN YNum(PosInf)
    ELSE IF u = I(0) THEN YNum(I(1))
    ELSE [rat |-> I(0), cosh |-> {<<FAbs(u), I(1)>>}]

YCoef(y, u) ==
    IF \E t \in y.cosh : t[1] = u
    THEN (CHOOSE t \in y.cosh : t[1] = u)[2]
    ELSE I(0)

\* k * y for a number k
YScale(k, y) ==
    IF y.cosh = {} THEN YNum(FMul(k, y.rat))
    ELSE IF ~isFinite(k) THEN YNum(NaN)
    ELSE [rat  |-> FMul(k, y.rat),
          cosh |-> {t \in {<<s[1], FMul(k, s[2])>> : s \in y.cosh} :
                       t[2] # I(0)}]

YAdd(y1, y2) ==
    LET r  == FAdd(y1.rat, y2.rat)
        us == {t[1] : t \in y1.cosh \cup y2.cosh}
    IN  IF ~isFinite(r) THEN YNum(r)
        ELSE [rat  |-> r,
              cosh |-> {t \in {<<u, FAdd(YCoef(y1, u), YCoef(y2, u))>> :
                                   u \in us} : t[2] # I(0)}]

YSub(y1, y2) == YAdd(y1, YScale(I(-1), y2))

IsTautNoMargin(L, dx, dy) ==
    \/ FLe(L, I(0))
    \/ FLe(FMul(L, L), FAdd(FMul(dx, dx), FMul(dy, dy)))

\* chainLength <= Math.sqrt(dx * dx + dy * dy) * 1.001, decided without
\* extracting the root: L <= 1.001 * s  iff  L / 1.001 <= 0 or
\* (L / 1.001)^2 <= s^2.
IsTaut(L, dx, dy) ==
    LET r == FDiv(L, Q(1001, 1000))
    IN  \/ FLe(r, I(0))
        \/ FLe(FMul(r, r), FAdd(FMul(dx, dx), FMul(dy, dy)))

TautPoints(a1, a2) ==
    LET dx == FSub(a2.x, a1.x)
        dy == FSub(a2.y, a1.y)
    IN  [k \in 1 .. numPointsCatenary + 1 |->
            LET t == Q(k - 1, numPointsCatenary)
            IN  [x |-> FAdd(a1.x, FMul(t, dx)),
                 y |-> YNum(FAdd(a1.y, FMul(t, dy)))]]

\* Math.abs(x) < 1e-10.  The threshold is compared as x * 1e5 < 1e-5.
BelowDerivativeFloor(x) ==
    FLt(FMul(FAbs(x), I(100000)), Q(1, 100000))

\* The iterations at which the oracles may leave their walk value.
NewtonExits == {0, 1, maxIterationsSymmetric - 1}

AsymmetricExits == {0, 1, maxIterationsAsymmetric - 1}

\* The values <<f, df>> iteration i of the Newton loop may compute.  With
\* b / a not a number both are NaN.  Otherwise the walk value moves a up by
\* one; the others make the step leave the range at either end, land on the
\* upper limit, fall under the tolerance, become NaN, or have no slope.
NewtonResiduals(i, a, b, horizontalDist) ==
    IF FDiv(b, a) = NaN THEN {<<NaN, NaN>>}
    ELSE {<<I(-1), I(1)>>} \cup
         IF i \in NewtonExits
         THEN {<<I(1000), I(1)>>, <<I(-1000), I(1)>>,
               <<FSub(a, FMul(horizontalDist, I(100))), I(1)>>,
               <<Q(1, 20000), I(1)>>, <<NaN, I(1)>>, <<I(1), I(0)>>}
         ELSE {}

\* The values <<currentVerticalDist, currentLength>> iteration i of the
\* fixed-point loop may compute.  Both are a * (difference of two hyperbolic
\* values): NaN when a is zero or not finite.  Otherwise the length's walk
\* value is 10 short of the target; the others meet the target, are far too
\* long, or are NaN.  The height is a * (cosh(x2 / a) - cosh(x1 / a)): zero
\* while x1 = -x2, as before the first adjustment, because cosh is even;
\* after that its walk value is 100 beyond the target and the other meets it.
AsymmetricCurrent(i, a, x1, x2, verticalDist, L) ==
    IF ~isFinite(a) \/ a = I(0) THEN {<<NaN, NaN>>}
    ELSE IF x1 = FNeg(x2)
    THEN {<<I(0), FAdd(L, I(-10))>>} \cup
         IF i \in AsymmetricExits
         THEN {<<I(0), L>>, <<I(0), FAdd(L, I(1000))>>, <<NaN, NaN>>}
         ELSE {}
    ELSE {<<FAdd(verticalDist, I(100)), FAdd(L, I(-10))>>} \cup
         IF i \in AsymmetricExits
         THEN {<<verticalDist, L>>, <<verticalDist, FAdd(L, I(1000))>>,
               <<NaN, NaN>>}
         ELSE {}

\* The sampling loop of calculateSymmetricCatenary for a solved a.
SymmetricPoints(a1, a2, a) ==
    LET dx   == FSub(a2.x, a1.x)
        midX == FDiv(FAdd(a1.x, a2.x), I(2))
        b    == FDiv(FAbs(dx), I(2))
        c    == YSub(YNum(a1.y), YScale(a, MathCosh(FDiv(b, a))))
    IN  [k \in 1 .. numPointsCatenary + 1 |->
            LET t      == Q(k - 1, numPointsCatenary)
                x      == FAdd(a1.x, FMul(t, dx))
                xLocal == FSub(x, midX)
            IN  [x |-> x,
                 y |-> YAdd(YScale(a, MathCosh(FDiv(xLocal, a))), c)]]

\* The sampling loop of calculateAsymmetricCatenary for solved a, x1, x2.
AsymmetricPoints(a1, a2, a, x1, x2) ==
    LET dx == FSub(a2.x, a1.x)
        c  == YSub(YNum(a1.y), YScale(a, MathCosh(FDiv(x1, a))))
    IN  [k \in 1 .. numPointsCatenary + 1 |->
            LET t      == Q(k - 1, numPointsCatenary)
                xLocal == FAdd(x1, FMul(t, FSub(x2, x1)))
            IN  [x |-> FAdd(a1.x, FMul(t, dx)),
                 y |-> YAdd(YScale(a, MathCosh(FDiv(xLocal, a))), c)]]

\* Mutant of SelectBranch: the height test comes before the taut test.
SelectBranchLevelFirst(L, dx, dy) ==
    IF FLt(FAbs(dy), I(1)) THEN "symmetric"
    ELSE IF IsTaut(L, dx, dy) THEN "taut"
    ELSE "asymmetric"

\* The order of the tests of calculateCatenary: the taut test returns
\* first, then Math.abs(dy) < 1, then what is left.
SelectBranch(L, dx, dy) ==
    IF IsTaut(L, dx, dy) THEN "taut"
    ELSE IF FLt(FAbs(dy), I(1)) THEN "symmetric"
    ELSE "asymmetric"

NoSolution == [a |-> NaN, x1 |-> NaN, x2 |-> NaN, newton |-> 0, iterations |-> 0]

\* calculateCatenary(anchor1, anchor2, chainLength) up to the first solver
\* iteration: the taut branch returns at once, the other two enter
\* solveCatenaryParameterSymmetric with the initial guess a = b.
CalculateCatenary ==
    LET dx             == FSub(anchor2.x, anchor1.x)
        dy             == FSub(anchor2.y, anchor1.y)
        horizontalDist == FAbs(dx)
    IN  /\ pc = "call"
        /\ branch' = SelectBranch(chainLength, dx, dy)
        /\ IF branch' = "taut"
           THEN /\ solved' = NoSolution
                /\ points' = TautPoints(anchor1, anchor2)
                /\ pc' = "done"
           ELSE /\ solved' = [NoSolution EXCEPT
                                 !.a = FDiv(horizontalDist, I(2))]
                /\ points' = <<>>
                /\ pc' = "newton"
        /\ UNCHANGED <<anchor1, anchor2, chainLength>>

\* solveCatenaryParameterSymmetric has returned a: the symmetric branch
\* samples the curve; the asymmetric solver starts its loop from a.
NewtonReturn(a, i) ==
    LET horizontalDist == FAbs(FSub(anchor2.x, anchor1.x))
    IN  IF branch = "symmetric"
        THEN /\ solved' = [solved EXCEPT !.a = a, !.newton = i]
             /\ points' = SymmetricPoints(anchor1, anchor2, a)
             /\ pc' = "done"
        ELSE /\ solved' = [a |-> a,
                           x1 |-> FDiv(FNeg(horizontalDist), I(2)),
                           x2 |-> FDiv(horizontalDist, I(2)),
                           newton |-> i, iterations |-> 0]
             /\ points' = <<>>
             /\ pc' = "adjust"

\* One iteration of the loop of solveCatenaryParameterSymmetric, and what
\* follows it when the loop ends there.
NewtonIterate(f, df) ==
    LET horizontalDist == FAbs(FSub(anchor2.x, anchor1.x))
        a    == solved.a
        i    == solved.newton
        aNew == FSub(a, FDiv(f, df))
    IN  /\ pc = "newton"
        /\ IF BelowDerivativeFloor(df)
           THEN NewtonReturn(a, i + 1)
           ELSE IF \/ FLe(aNew, I(0))
                   \/ FGt(aNew, FMul(horizontalDist, I(100)))
           THEN NewtonReturn(a, i + 1)
           ELSE IF FLt(FAbs(FSub(aNew, a)), Q(1, 10000))
           THEN NewtonReturn(aNew, i + 1)
           ELSE IF i + 1 >= maxIterationsSymmetric
           THEN NewtonReturn(aNew, i + 1)
           ELSE /\ solved' = [solved EXCEPT !.a = aNew, !.newton = i + 1]
                /\ UNCHANGED <<points, pc>>
        /\ UNCHANGED <<anchor1, anchor2, chainLength, branch>>

\* solveCatenaryParameterAsymmetric has returned {a, x1, x2}:
\* calculateAsymmetricCatenary samples the curve.
AsymmetricReturn(a, x1, x2, i) ==
    /\ solved' = [solved EXCEPT !.a = a, !.x1 = x1, !.x2 = x2,
                                !.iterations = i]
    /\ points' = AsymmetricPoints(anchor1, anchor2, a, x1, x2)
    /\ pc' = "done"

\* One iteration of the loop of solveCatenaryParameterAsymmetric, and what
\* follows it when the loop ends there.
AsymmetricIterate(currentVerticalDist, currentLength) ==
    LET horizontalDist == FAbs(FSub(anchor2.x, anchor1.x))
        verticalDist   == FSub(anchor2.y, anchor1.y)
        i              == solved.iterations
        vertError      == FSub(currentVerticalDist, verticalDist)
        lengthError    == FSub(currentLength, chainLength)
        aAdj           == FSub(solved.a, FMul(lengthError, Q(1, 10)))
        x1New          == FSub(solved.x1, FMul(vertError, Q(1, 100)))
        x2New          == FAdd(x1New, horizontalDist)
        aNew           == MathMax(I(10),
                              MathMin(aAdj, FMul(horizontalDist, I(10))))
    IN  /\ pc = "adjust"
        /\ IF /\ FLt(FAbs(vertError), Q(1, 100))
              /\ FLt(FAbs(lengthError), Q(1, 100))
           THEN AsymmetricReturn(solved.a, solved.x1, solved.x2, i + 1)
           ELSE IF i + 1 >= maxIterationsAsymmetric
           THEN AsymmetricReturn(aNew, x1New, x2New, i + 1)
           ELSE /\ solved' = [solved EXCEPT !.a = aNew, !.x1 = x1New,
                                 !.x2 = x2New, !.iterations = i + 1]
                /\ UNCHANGED <<points, pc>>
        /\ UNCHANGED <<anchor1, anchor2, chainLength, branch>>

\* Anchor pairs: level, 3-4-5, nearly level, vertical, right to left,
\* coincident, steep and half a unit apart.
AnchorPairs ==
    { <<Point(I(1), I(2)), Point(I(6), I(2))>>,
      <<Point(I(0), I(0)), Point(Q(1, 2), I(3))>>,
      <<Point(I(0), I(0)), Point(I(3), I(4))>>,
      <<Point(I(0), I(0)), Point(I(4), Q(1, 2))>>,
      <<Point(I(0), I(0)), Point(I(0), I(3))>>,
      <<Point(I(3), I(0)), Point(I(0), I(-4))>>,
      <<Point(I(2), I(2)), Point(I(2), I(2))>> }

\* Chain lengths around the taut threshold of a separation of 5.
ChainLengths == {I(0), I(4), I(5), Q(1001, 200), Q(2503, 500), I(8)}

\* The values the solvers' iterations may compute in the current state.
NewtonOracle ==
    LET horizontalDist == FAbs(FSub(anchor2.x, anchor1.x))
    IN  NewtonResiduals(solved.newton, solved.a, FDiv(horizontalDist, I(2)),
                        horizontalDist)

AsymmetricOracle ==
    AsymmetricCurrent(solved.iterations, solved.a, solved.x1, solved.x2,
                      FSub(anchor2.y, anchor1.y), chainLength)

CatStart ==
    /\ \E pair \in AnchorPairs :
          /\ anchor1 = pair[1]
          /\ anchor2 = pair[2]
    /\ chainLength \in ChainLengths
    /\ branch = "none"
    /\ solved = NoSolution
    /\ points = <<>>
    /\ pc = "call"

\* calculateCatenary is not in use.
CatIdle ==
    /\ anchor1 = Point(I(0), I(0))
    /\ anchor2 = Point(I(0), I(0))
    /\ chainLength = I(0)
    /\ branch = "none"
    /\ solved = NoSolution
    /\ points = <<>>
    /\ pc = "idle"

-----------------------------------------------------------------------------
(* Pendulum overlays (ChaosSimulation.ts) *)

PendulumState(theta1, theta2, omega1, omega2) ==
    [theta1 |-> theta1, theta2 |-> theta2, omega1 |-> omega1, omega2 |-> omega2]

OverlayVariationFromZero(i, n, r) == FMul(FDiv(I(i), I(n)), r)

\* variation = ((i - count / 2) / count) * randomness
OverlayVariation(i, n, r) ==
    FMul(FDiv(FSub(I(i), FDiv(I(n), I(2))), I(n)), r)

\* The state pushed by iteration i of the loop of createOverlays.
OverlayState(base, i, n, r) ==
    LET variation == OverlayVariation(i, n, r)
    IN  [theta1 |-> FAdd(base.theta1, FDiv(FMul(variation, MathPI), I(180))),
         theta2 |-> FAdd(base.theta2, FDiv(FMul(variation, MathPI), I(180))),
         omega1 |-> base.omega1,
         omega2 |-> base.omega2]

createOverlays(base, n, r) ==
    <<base>> \o [i \in 1 .. n - 1 |-> OverlayState(base, i, n, r)]

PendulumParams(L1, L2, m1, m2, g, d) ==
    [L1 |-> L1, L2 |-> L2, m1 |-> m1, m2 |-> m2, g |-> g, damping |-> d]

\* a * b * c * ..., multiplied from the left as JavaScript does
RECURSIVE Product(_)
Product(fs) ==
    IF Len(fs) = 1 THEN fs[1]
    ELSE FMul(Product(SubSeq(fs, 1, Len(fs) - 1)), fs[Len(fs)])

\* Mutant of GravityArm: the angle is measured from the horizontal.
GravityArmHorizontal(theta) == MathCos(theta)

\* Math.sin(theta1), Math.sin(theta2): the lever arm of gravity on a bob
GravityArm(theta) == MathSin(theta)

derivatives(s, p) ==
    LET delta == FSub(s.theta2, s.theta1)
        sinD  == MathSin(delta)
        cosD  == MathCos(delta)
        mm    == FAdd(p.m1, p.m2)
        den1  == FSub(FMul(mm, p.L1), Product(<<p.m2, p.L1, cosD, cosD>>))
        den2  == FMul(FDiv(p.L2, p.L1), den1)
        num1  ==
            FSub(FSub(FAdd(FAdd(
                Product(<<p.m2, p.L1, s.omega1, s.omega1, sinD, cosD>>),
                Product(<<p.m2, p.g, GravityArm(s.theta2), cosD>>)),
                Product(<<p.m2, p.L2, s.omega2, s.omega2, sinD>>)),
                Product(<<mm, p.g, GravityArm(s.theta1)>>)),
                FMul(p.damping, s.omega1))
        num2  ==
            FSub(FSub(FSub(FAdd(
                Product(<<FNeg(p.m2), p.L2, s.omega2, s.omega2, sinD, cosD>>),
                Product(<<mm, p.g, GravityArm(s.theta1), cosD>>)),
                Product(<<mm, p.L1, s.omega1, s.omega1, sinD>>)),
                Product(<<mm, p.g, GravityArm(s.theta2)>>)),
                FMul(p.damping, s.omega2))
    IN  [theta1 |-> s.omega1,
         theta2 |-> s.omega2,
         omega1 |-> FDiv(num1, den1),
         omega2 |-> FDiv(num2, den2)]

\* state + k * dt * h in each component (h is 0.5 or 1)
Rk4Stage(s, k, dt, h) ==
    [theta1 |-> FAdd(s.theta1, FMul(FMul(k.theta1, dt), h)),
     theta2 |-> FAdd(s.theta2, FMul(FMul(k.theta2, dt), h)),
     omega1 |-> FAdd(s.omega1, FMul(FMul(k.omega1, dt), h)),
     omega2 |-> FAdd(s.omega2, FMul(FMul(k.omega2, dt), h))]

\* The intermediate states of rk4Step: state2 from k1 = derivatives(state),
\* state3 from k2 = derivatives(state2), state4 from k3 = derivatives(state3).
Rk4State2(s, p, dt) == Rk4Stage(s, derivatives(s, p), dt, Q(1, 2))

Rk4State3(s, state2, p, dt) == Rk4Stage(s, derivatives(state2, p), dt, Q(1, 2))

Rk4State4(s, state3, p, dt) == Rk4Stage(s, derivatives(state3, p), dt, I(1))

\* Mutant of Rk4Combine: the two midpoint slopes are not doubled.
Rk4CombineUnweighted(x, dt, k1, k2, k3, k4) ==
    FAdd(x, FMul(FDiv(dt, I(6)), FAdd(FAdd(FAdd(k1, k2), k3), k4)))

\* x + (dt / 6) * (k1 + 2 * k2 + 2 * k3 + k4)
Rk4Combine(x, dt, k1, k2, k3, k4) ==
    FAdd(x, FMul(FDiv(dt, I(6)),
                 FAdd(FAdd(FAdd(k1, FMul(I(2), k2)), FMul(I(2), k3)), k4)))

\* The object rk4Step returns, from the state and the four slopes.
Rk4Sum(s, dt, k1, k2, k3, k4) ==
    [theta1 |-> Rk4Combine(s.theta1, dt, k1.theta1, k2.theta1, k3.theta1, k4.theta1),
     theta2 |-> Rk4Combine(s.theta2, dt, k1.theta2, k2.theta2, k3.theta2, k4.theta2),
     omega1 |-> Rk4Combine(s.omega1, dt, k1.omega1, k2.omega1, k3.omega1, k4.omega1),
     omega2 |-> Rk4Combine(s.omega2, dt, k1.omega2, k2.omega2, k3.omega2, k4.omega2)]

\* The element of a one-element set.
Only(S) == CHOOSE x \in S : TRUE

\* rk4Step; each intermediate state is computed once, as a const in the code.
rk4Step(s, p, dt) ==
    Only({Only({Only({Only({
        Rk4Sum(state, dt, derivatives(state, p), derivatives(state2, p),
               derivatives(state3, p), derivatives(state4, p))
        : state4 \in {Rk4State4(state, state3, p, dt)}})
        : state3 \in {Rk4State3(state, state2, p, dt)}})
        : state2 \in {Rk4State2(state, p, dt)}})
        : state \in {s}})

\* The model's sine and cosine are exact on whole quarter turns only, and a
\* squared angular velocity keeps its value under the change of angle unit
\* only where its factor sin(delta) vanishes or the velocity is zero.
\* derivatives is evaluated exactly at s when both hold.
DerivativesExact(s) ==
    /\ isFinite(s.theta1) => s.theta1[2] = 1
    /\ isFinite(s.theta2) => s.theta2[2] = 1
    /\ \/ MathSin(FSub(s.theta2, s.theta1)) = I(0)
       \/ s.omega1 = I(0) /\ s.omega2 = I(0)

\* rk4Step is evaluated exactly at s when each of its four stages is.
Rk4Exact(s, p, dt) ==
    \E state \in {s} :
        /\ DerivativesExact(state)
        /\ \E state2 \in {Rk4State2(state, p, dt)} :
              /\ DerivativesExact(state2)
              /\ \E state3 \in {Rk4State3(state, state2, p, dt)} :
                    /\ DerivativesExact(state3)
                    /\ \E state4 \in {Rk4State4(state, state3, p, dt)} :
                          DerivativesExact(state4)

\* Initial states of the pendulum page: angles of a quarter and an eighth of
\* a turn, at rest or moving.
BaseStates ==
    { PendulumState(I(1), I(1), I(0), I(0)),
      PendulumState(I(1), Q(1, 2), I(0), I(0)),
      PendulumState(Q(1, 2), I(-1), I(3), I(-2)),
      PendulumState(I(0), I(0), I(1), I(1)) }

Randomnesses == {I(0), Q(1, 2), I(1), I(5)}

CreateOverlays ==
    /\ overlays = <<>>
    /\ overlays' = createOverlays(baseState, count, randomness)
    /\ UNCHANGED <<baseState, count, randomness>>

PendulumStart ==
    /\ baseState \in BaseStates
    /\ count \in 0 .. MaxCount
    /\ randomness \in Randomnesses
    /\ overlays = <<>>

\* createOverlays is not in use.
PendulumIdle ==
    /\ baseState = PendulumState(I(0), I(0), I(0), I(0))
    /\ count = 1
    /\ randomness = I(0)
    /\ overlays = <<>>

----------------------------------------------------------------------------
(* Objects: the arrays and object literals the pendulum and epicycle       *)
(* functions receive and build.  heap is the sequence of all objects made  *)
(* so far and a reference is an index into it, so that an object written   *)
(* in place and an object built anew are different things in the model.    *)

\* The objects a sequence of references points to.
Deref(h, refs) == [i \in 1 .. Len(refs) |-> h[refs[i]]]

\* The references of n objects appended to a heap h.
NewRefs(h, n) == [i \in 1 .. n |-> Len(h) + i]

\* Mutant of StepInto: the stepped values are written into the argument.
StepInPlace(h, ref, v) == [heap |-> [h EXCEPT ![ref] = v], ref |-> ref]

\* rk4Step returns an object literal: a new object holding the stepped values.
StepInto(h, ref, v) == [heap |-> Append(h, v), ref |-> Len(h) + 1]

ParamSets ==
    { PendulumParams(I(1), I(1), I(1), I(1), I(1), I(0)),
      PendulumParams(I(1), I(2), I(2), I(1), I(2), I(1)) }

StepStates ==
    { PendulumState(I(-1), I(-1), I(0), I(0)),
      PendulumState(I(0), I(0), I(2), I(-2)) }

StepTimes == {I(1), I(2)}

StepChains ==
    { <<Circle(I(400), I(300), I(150), I(1), I(0))>>,
      <<Circle(I(400), I(300), I(100), I(1), I(0)),
        Circle(I(0), I(0), I(40), I(-3), I(0))>> }

\* PendulumCanvas: createOverlays(initialState, numOverlays, randomness);
\* element 0 of the result is the initialState object itself.
CreateOverlaysCall(n, r) ==
    LET made == Tail(createOverlays(heap[initialState], n, r)) IN
    /\ Len(heap) + Len(made) <= MaxObjects
    /\ heap' = heap \o made
    /\ stateRefs' = <<initialState>> \o NewRefs(heap, Len(made))
    /\ lastCall' = [op |-> "createOverlays", args |-> <<initialState>>,
                    result |-> stateRefs', index |-> 0]
    /\ UNCHANGED <<circleRefs, initialState, pendulumParams>>

\* PendulumCanvas.animate: one callback of prevStates.map, rk4Step(state, params, dt).
StepOverlayCall(i, dt) ==
    LET ref == stateRefs[i] IN
    /\ Len(heap) + 1 <= MaxObjects
    /\ Rk4Exact(heap[ref], pendulumParams, dt)
    /\ \E r \in {StepInto(heap, ref, rk4Step(heap[ref], pendulumParams, dt))} :
          /\ heap' = r.heap
          /\ stateRefs' = [stateRefs EXCEPT ![i] = r.ref]
          /\ lastCall' = [op |-> "rk4Step", args |-> <<ref>>, result |-> <<r.ref>>,
                          index |-> i, dt |-> dt]
    /\ UNCHANGED <<circleRefs, initialState, pendulumParams>>

\* EpicycleCanvas.animate: setCircles(prev => updateCircles(prev, deltaTime)).
UpdateCirclesCall(dt) ==
    LET made == updateCircles(Deref(heap, circleRefs), dt) IN
    /\ Len(heap) + Len(made) <= MaxObjects
    /\ heap' = heap \o made
    /\ circleRefs' = NewRefs(heap, Len(made))
    /\ lastCall' = [op |-> "updateCircles", args |-> circleRefs,
                    result |-> circleRefs', index |-> 0]
    /\ UNCHANGED <<initialState, stateRefs, pendulumParams>>

\* EpicycleCanvas.animate: calculateAllPositions(circles, time); the points
\* it returns are values, kept in lastCall.
CalculateAllPositionsCall(t) ==
    /\ lastCall' = [op |-> "calculateAllPositions", args |-> circleRefs,
                    result |-> <<>>, index |-> 0,
                    points |-> calculateAllPositions(Deref(heap, circleRefs), t)]
    /\ UNCHANGED <<heap, circleRefs, initialState, stateRefs, pendulumParams>>

ObjectsStart ==
    \E cs \in StepChains, b \in StepStates, p \in ParamSets :
        /\ heap = Append(cs, b)
        /\ circleRefs = [i \in 1 .. Len(cs) |-> i]
        /\ initialState = Len(cs) + 1
        /\ stateRefs = <<Len(cs) + 1>>
        /\ pendulumParams = p
        /\ lastCall = [op |-> "none", args |-> <<>>, result |-> <<>>, index |-> 0]

ObjectsIdle ==
    /\ heap = <<>>
    /\ circleRefs = <<>>
    /\ initialState = 0
    /\ stateRefs = <<>>
    /\ pendulumParams = PendulumParams(I(1), I(1), I(1), I(1), I(1), I(0))
    /\ lastCall = [op |-> "none", args |-> <<>>, result |-> <<>>, index |-> 0]

----------------------------------------------------------------------------
(* Animation frames: the animate callbacks of WaveCanvas (and its earlier  *)
(* variant), EpicycleCanvas and PendulumCanvas.  The clock is in ms.  A    *)
(* frame's calls into an engine are recorded in engineCalls with the       *)
(* arguments they are made with.  A pendulum state is held as the number   *)
(* of rk4Step calls applied to its overlay's initial state, and a trail    *)
(* point or energy entry as the frame and the state it was computed from.  *)

numSteps == 4

maxEnergyHistory == 200

\* Math.min((now - lastTimeRef.current) / 1000, 0.016)
ClampedDelta(now, last) == MathMin(FDiv(I(now - last), I(1000)), Q(16, 1000))

\* (now - lastTimeRef.current) / 1000
UnclampedDelta(now, last) == FDiv(I(now - last), I(1000))

\* Array.prototype.slice(start) for an integer start: a negative start
\* counts from the end, and -0 is 0.
Slice(arr, start) ==
    LET from == IF start < 0 THEN (IF Len(arr) + start < 0 THEN 0 ELSE Len(arr) + start)
                ELSE (IF start > Len(arr) THEN Len(arr) ELSE start)
    IN  SubSeq(arr, from + 1, Len(arr))

\* newTrail = [...trail, entry]; if (newTrail.length > cap) return
\* newTrail.slice(-cap); return newTrail
PushCapped(buffer, entry, cap) ==
    LET newBuffer == Append(buffer, entry)
    IN  IF Len(newBuffer) > cap THEN Slice(newBuffer, -cap) ELSE newBuffer

RECURSIVE Repeat(_, _)
Repeat(calls, n) == IF n = 0 THEN <<>> ELSE calls \o Repeat(calls, n - 1)

\* WaveCanvas.animate
WaveCanvasFrame(gap) ==
    LET now == lastTime + gap
        delta == ClampedDelta(now, lastTime)
        newTime == FAdd(frameTime, delta)
        dt == FDiv(FMul(delta, I(3)), I(numSteps))
        update == <<[fn |-> "update", dt |-> dt]>>
        drive == IF mode = "drive"
                 THEN <<[fn |-> "drive", t |-> newTime, amplitude |-> I(15)]>>
                 ELSE <<>>
    IN  /\ driver = "WaveCanvas"
        /\ frames < MaxFrames
        /\ lastTime' = now
        /\ frameDelta' = delta
        /\ frameTime' = newTime
        /\ engineCalls' = Repeat(update \o drive, numSteps)
        /\ frames' = frames + 1
        /\ UNCHANGED <<driver, mode, trailLength, showEnergy, stepped, trails,
                       energyHistory>>

\* WaveCanvas.animate, earlier variant
WaveCanvasEarlierFrame(gap) ==
    LET now == lastTime + gap
        delta == ClampedDelta(now, lastTime)
        drive == IF mode = "drive"
                 THEN <<[fn |-> "drive", t |-> frameTime, amplitude |-> I(2)]>>
                 ELSE <<>>
    IN  /\ driver = "WaveCanvasEarlier"
        /\ frames < MaxFrames
        /\ lastTime' = now
        /\ frameDelta' = delta
        /\ frameTime' = FAdd(frameTime, delta)
        /\ engineCalls' = drive \o <<[fn |-> "update", dt |-> FMul(delta, I(10))]>>
        /\ frames' = frames + 1
        /\ UNCHANGED <<driver, mode, trailLength, showEnergy, stepped, trails,
                       energyHistory>>

\* EpicycleCanvas.animate
EpicycleCanvasFrame(gap) ==
    LET now == lastTime + gap
        delta == UnclampedDelta(now, lastTime)
        currentPos == [frame |-> frames + 1, time |-> frameTime]
    IN  /\ driver = "EpicycleCanvas"
        /\ frames < MaxFrames
        /\ lastTime' = now
        /\ frameDelta' = delta
        /\ frameTime' = FAdd(frameTime, delta)
        /\ engineCalls' = <<[fn |-> "updateCircles", dt |-> delta],
                            [fn |-> "calculateAllPositions", t |-> frameTime]>>
        /\ trails' = <<PushCapped(trails[1], currentPos, trailLength)>>
        /\ frames' = frames + 1
        /\ UNCHANGED <<driver, mode, trailLength, showEnergy, stepped, energyHistory>>

\* PendulumCanvas.animate
PendulumCanvasFrame ==
    LET dt == Q(16, 1000)
        bob2(idx) == [frame |-> frames + 1, overlay |-> idx, steps |-> stepped[idx]]
        energy == [frame |-> frames + 1, overlay |-> 1, steps |-> stepped[1]]
    IN  /\ driver = "PendulumCanvas"
        /\ frames < MaxFrames
        /\ frameDelta' = dt
        /\ stepped' = [idx \in DOMAIN stepped |-> stepped[idx] + 1]
        /\ engineCalls' = [idx \in DOMAIN stepped |-> [fn |-> "rk4Step", dt |-> dt]]
        /\ trails' = [idx \in DOMAIN trails |->
                         PushCapped(trails[idx], bob2(idx), trailLength)]
        /\ energyHistory' = IF showEnergy
                            THEN PushCapped(energyHistory, energy, maxEnergyHistory)
                            ELSE energyHistory
        /\ frames' = frames + 1
        /\ UNCHANGED <<driver, mode, lastTime, frameTime, trailLength, showEnergy>>

\* Time between two animation frames, in ms: none, a fast frame, a 60 Hz
\* frame, just over it, and a pause of five seconds.
Gaps == {0, 5, 16, 17, 5000}

TrailLengths == 0 .. 2

FramesStart ==
    /\ driver \in {"WaveCanvas", "WaveCanvasEarlier", "EpicycleCanvas", "PendulumCanvas"}
    /\ mode \in IF driver \in {"WaveCanvas", "WaveCanvasEarlier"}
                THEN {"pluck", "drive"} ELSE {"pluck"}
    /\ lastTime = 0
    /\ frameTime = I(0)
    /\ frameDelta = I(0)
    /\ engineCalls = <<>>
    /\ frames = 0
    /\ trailLength \in IF driver \in {"EpicycleCanvas", "PendulumCanvas"}
                       THEN TrailLengths ELSE {0}
    /\ showEnergy \in IF driver = "PendulumCanvas" THEN BOOLEAN ELSE {FALSE}
    /\ stepped \in IF driver = "PendulumCanvas" THEN {<<0>>, <<0, 0>>} ELSE {<<>>}
    /\ trails = IF driver = "PendulumCanvas" THEN [idx \in DOMAIN stepped |-> <<>>]
                ELSE IF driver = "EpicycleCanvas" THEN << <<>> >> ELSE <<>>
    /\ energyHistory = <<>>

FramesIdle ==
    /\ driver = "idle"
    /\ mode = "pluck"
    /\ lastTime = 0
    /\ frameTime = I(0)
    /\ frameDelta = I(0)
    /\ engineCalls = <<>>
    /\ frames = 0
    /\ trailLength = 0
    /\ showEnergy = FALSE
    /\ stepped = <<>>
    /\ trails = <<>>
    /\ energyHistory = <<>>

----------------------------------------------------------------------------
(* getNodes and getAntinodes (WavePhysics.ts) *)

\* Mutant of AntinodePosition: the half-segment offset is left out.
AntinodePositionNoOffset(i, harmonic) == FDiv(I(i), I(harmonic))

\* const position = (i + 0.5) / harmonic
AntinodePosition(i, harmonic) == FDiv(FAdd(I(i), Q(1, 2)), I(harmonic))

\* The array after the loop of getNodes has run for 0 .. i.
RECURSIVE NodesUpTo(_, _, _)
NodesUpTo(harmonic, n, i) ==
    IF i < 0 THEN <<>>
    ELSE LET position == FDiv(I(i), I(harmonic))
             before   == NodesUpTo(harmonic, n, i - 1)
         IN  IF FLe(I(0), position) /\ FLe(position, I(1))
             THEN Append(before, MathFloor(FMul(position, I(n - 1))))
             ELSE before

getNodes(harmonic, n) == NodesUpTo(harmonic, n, harmonic)

\* The array after the loop of getAntinodes has run for 0 .. i.
RECURSIVE AntinodesUpTo(_, _, _)
AntinodesUpTo(harmonic, n, i) ==
    IF i < 0 THEN <<>>
    ELSE LET position == AntinodePosition(i, harmonic)
             before   == AntinodesUpTo(harmonic, n, i - 1)
         IN  IF FGt(position, I(0)) /\ FLt(position, I(1))
             THEN Append(before, MathFloor(FMul(position, I(n - 1))))
             ELSE before

getAntinodes(harmonic, n) == AntinodesUpTo(harmonic, n, harmonic - 1)

GetNodes ==
    /\ nodes' = getNodes(nodeHarmonic, nodePoints)
    /\ nodeCalls' = nodeCalls \cup {"getNodes"}
    /\ UNCHANGED <<nodeHarmonic, nodePoints, antinodes>>

GetAntinodes ==
    /\ antinodes' = getAntinodes(nodeHarmonic, nodePoints)
    /\ nodeCalls' = nodeCalls \cup {"getAntinodes"}
    /\ UNCHANGED <<nodeHarmonic, nodePoints, nodes>>

NodesStart ==
    /\ nodeHarmonic \in 1 .. MaxNodeHarmonic
    /\ nodePoints \in 2 .. MaxNodePoints
    /\ nodes = <<>>
    /\ antinodes = <<>>
    /\ nodeCalls = {}

\* getNodes and getAntinodes are not in use.
NodesIdle ==
    /\ nodeHarmonic = 1
    /\ nodePoints = 2
    /\ nodes = <<>>
    /\ antinodes = <<>>
    /\ nodeCalls = {}

----------------------------------------------------------------------------
(* EpicycleCanvas: the circles and time states over animation frames *)

\* Frame gaps in ms: whole seconds, so that every angle stays a whole number
\* of quarter turns at the chains' whole speeds.
CanvasGaps == {0, 1000, 2000}

\* One animation frame and the render that follows it.  animate reads the
\* circles and time of the render that registered it, queues t + deltaTime
\* and updateCircles(prevCircles, deltaTime), and pushes the last point of
\* calculateAllPositions(circles, time) onto the trail; the draw effect of
\* the next render computes calculateAllPositions from the new states.
EpicycleCanvasAnimate(gap) ==
    LET now        == canvasLastTime + gap
        delta      == UnclampedDelta(now, canvasLastTime)
        allPoints  == calculateAllPositions(canvasCircles, canvasTime)
        currentPos == allPoints[Len(allPoints)]
    IN  /\ now <= 1000 * MaxFrames
        /\ canvasLastTime' = now
        /\ canvasTime' = FAdd(canvasTime, delta)
        /\ canvasCircles' = updateCircles(canvasCircles, delta)
        /\ canvasTrail' = PushCapped(canvasTrail, currentPos, canvasTrailLength)
        /\ canvasDrawn' = calculateAllPositions(canvasCircles', canvasTime')
        /\ UNCHANGED <<initialCircles, canvasTrailLength>>

\* The component as mounted: useState(initialCircles), useState([]),
\* useState(0), and the first run of the draw effect.
CanvasStart ==
    /\ initialCircles \in Chains
    /\ canvasCircles = initialCircles
    /\ canvasTime = I(0)
    /\ canvasLastTime = 0
    /\ canvasTrail = <<>>
    /\ canvasTrailLength \in {1, 2}
    /\ canvasDrawn = calculateAllPositions(initialCircles, I(0))

\* No EpicycleCanvas is mounted.
CanvasIdle ==
    /\ initialCircles = <<>>
    /\ canvasCircles = <<>>
    /\ canvasTime = I(0)
    /\ canvasLastTime = 0
    /\ canvasTrail = <<>>
    /\ canvasTrailLength = 0
    /\ canvasDrawn = <<>>

----------------------------------------------------------------------------
(* CatenaryCanvas: the anchors state under pointer events *)

\* useState<number | null>(null)
NoAnchor == 0

Anchor(id, x, y) == [id |-> id, x |-> x, y |-> y]

\* Math.hypot(anchor.x - x, anchor.y - y) < 15, on the squares
Hit(anchor, x, y) ==
    (anchor.x - x) * (anchor.x - x) + (anchor.y - y) * (anchor.y - y) < 15 * 15

\* anchors.find(...): the first anchor under the pointer; 0 when undefined
FindClicked(as, x, y) ==
    IF \E i \in DOMAIN as : Hit(as[i], x, y)
    THEN CHOOSE i \in DOMAIN as :
             Hit(as[i], x, y) /\ \A j \in 1 .. i - 1 : ~Hit(as[j], x, y)
    ELSE 0

\* prev.filter((a) => a.id !== id)
RECURSIVE FilterOthers(_, _)
FilterOthers(as, id) ==
    IF as = <<>> THEN <<>>
    ELSE IF as[1].id # id THEN <<as[1]>> \o FilterOthers(Tail(as), id)
    ELSE FilterOthers(Tail(as), id)

\* Date.now() when the canvas mounts, well after the ids 1 and 2.
MountTime == 10

\* Pointer positions relative to the canvas: the two initial anchors, two
\* free spots, and one within 15 of the first free spot.
PointerSpots == {<<150, 200>>, <<650, 200>>, <<400, 300>>, <<410, 300>>, <<300, 100>>}

\* handlePointerDown; now is the value Date.now() returns for a new id.
HandlePointerDown(x, y, button, now) ==
    LET clickedAnchor == FindClicked(anchorList, x, y) IN
    /\ now \in clock .. MountTime + MaxClock
    /\ IF clickedAnchor # 0
       THEN /\ draggingAnchor' = anchorList[clickedAnchor].id
            /\ UNCHANGED <<anchorList, clock>>
       ELSE /\ button = 0
            /\ Len(anchorList) < MaxAnchors
            /\ anchorList' = Append(anchorList, Anchor(now, x, y))
            /\ clock' = now
            /\ UNCHANGED draggingAnchor

\* handlePointerMove
HandlePointerMove(x, y) ==
    /\ draggingAnchor # NoAnchor
    /\ anchorList' = [i \in DOMAIN anchorList |->
                         IF anchorList[i].id = draggingAnchor
                         THEN [anchorList[i] EXCEPT !.x = x, !.y = y]
                         ELSE anchorList[i]]
    /\ UNCHANGED <<draggingAnchor, clock>>

\* handlePointerUp
HandlePointerUp ==
    /\ draggingAnchor' = NoAnchor
    /\ UNCHANGED <<anchorList, clock>>

\* handleContextMenu
HandleContextMenu(x, y) ==
    LET clickedAnchor == FindClicked(anchorList, x, y)
    IN  /\ clickedAnchor # 0
        /\ Len(anchorList) > 2
        /\ anchorList' = FilterOthers(anchorList, anchorList[clickedAnchor].id)
        /\ UNCHANGED <<draggingAnchor, clock>>

AnchorsStart ==
    /\ anchorList = <<Anchor(1, 150, 200), Anchor(2, 650, 200)>>
    /\ draggingAnchor = NoAnchor
    /\ clock = MountTime

\* No CatenaryCanvas is mounted.
AnchorsIdle ==
    /\ anchorList = <<>>
    /\ draggingAnchor = NoAnchor
    /\ clock = 0

----------------------------------------------------------------------------
(* rk4Step from the hanging rest state *)

RestState == PendulumState(I(0), I(0), I(0), I(0))

\* Parameter sets: two of the page, one heavily damped, one with a negative
\* mass, and sets with m1 = 0, L1 = 0, L2 = 0, an infinite damping and an
\* infinite mass.
RestParamSets ==
    ParamSets \cup
    { PendulumParams(Q(3, 2), Q(1, 2), Q(1, 4), I(5), I(10), I(7)),
      PendulumParams(I(1), I(1), I(-1), I(1), I(1), I(1)),
      PendulumParams(I(1), I(1), I(0), I(1), I(1), I(0)),
      PendulumParams(I(0), I(1), I(1), I(1), I(1), I(0)),
      PendulumParams(I(1), I(0), I(1), I(1), I(1), I(0)),
      PendulumParams(I(1), I(1), I(1), I(1), I(1), PosInf),
      PendulumParams(I(1), I(1), I(1), PosInf, I(1), I(0)) }

\* Time steps: the page's 0.016, zero, negative, large, and not finite.
RestTimes == {Q(16, 1000), I(0), I(-1), I(1000), PosInf, NaN}

\* rk4Step(state, params, dt) on the state the previous call returned.
Rk4StepCall(dt) ==
    /\ restSteps < MaxSteps
    /\ restState' = rk4Step(restState, restParams, dt)
    /\ restDt' = dt
    /\ restSteps' = restSteps + 1
    /\ UNCHANGED restParams

RestStart ==
    /\ restParams \in RestParamSets
    /\ restState = RestState
    /\ restDt = I(0)
    /\ restSteps = 0

\* No pendulum is stepped from rest.
RestIdle ==
    /\ restParams = PendulumParams(I(1), I(1), I(1), I(1), I(1), I(0))
    /\ restState = RestState
    /\ restDt = I(0)
    /\ restSteps = 0

----------------------------------------------------------------------------
(* Specifications: one per engine; the engines share no state *)

WaveInit == WaveNew /\ EpiIdle /\ CatIdle /\ PendulumIdle /\ ObjectsIdle /\ ArraysIdle /\ HarmonicsIdle /\ CallsIdle /\ FramesIdle /\ NodesIdle /\ CanvasIdle /\ AnchorsIdle /\ RestIdle

WaveNext ==
    /\ \/ \E position \in PluckPositions, amplitude \in Amplitudes :
             Pluck(position, amplitude)
       \/ \E frequency \in DriveFrequencies, t \in DriveTimes,
             amplitude \in DriveAmplitudes :
             Drive(frequency, t, amplitude)
       \/ \E dt \in TimeSteps : Update(dt)
       \/ Reset
    /\ UNCHANGED <<epiVars, catVars, pendulumVars, objectVars, arrayVars, harmonicVars, callVars, frameVars, nodeVars, canvasVars, anchorVars, restVars>>

SpecWave == WaveInit /\ [][WaveNext]_vars

EpiInit == EpiStart /\ WaveIdle /\ CatIdle /\ PendulumIdle /\ ObjectsIdle /\ ArraysIdle /\ HarmonicsIdle /\ CallsIdle /\ FramesIdle /\ NodesIdle /\ CanvasIdle /\ AnchorsIdle /\ RestIdle

EpiNext ==
    /\ \/ \E t \in Times : CalculateAllPositions(t)
       \/ \E dt \in Times : UpdateCircles(dt)
    /\ UNCHANGED <<waveVars, catVars, pendulumVars, objectVars, arrayVars, harmonicVars, callVars, frameVars, nodeVars, canvasVars, anchorVars, restVars>>

SpecEpicycle == EpiInit /\ [][EpiNext]_vars

CatInit == CatStart /\ WaveIdle /\ EpiIdle /\ PendulumIdle /\ ObjectsIdle /\ ArraysIdle /\ HarmonicsIdle /\ CallsIdle /\ FramesIdle /\ NodesIdle /\ CanvasIdle /\ AnchorsIdle /\ RestIdle

CatNext ==
    /\ \/ CalculateCatenary
       \/ \E r \in NewtonOracle : NewtonIterate(r[1], r[2])
       \/ \E cur \in AsymmetricOracle : AsymmetricIterate(cur[1], cur[2])
    /\ UNCHANGED <<waveVars, epiVars, pendulumVars, objectVars, arrayVars, harmonicVars, callVars, frameVars, nodeVars, canvasVars, anchorVars, restVars>>

SpecCatenary == CatInit /\ [][CatNext]_vars

PendulumInit == PendulumStart /\ WaveIdle /\ EpiIdle /\ CatIdle /\ ObjectsIdle /\ ArraysIdle /\ HarmonicsIdle /\ CallsIdle /\ FramesIdle /\ NodesIdle /\ CanvasIdle /\ AnchorsIdle /\ RestIdle

PendulumNext ==
    /\ CreateOverlays
    /\ UNCHANGED <<waveVars, epiVars, catVars, objectVars, arrayVars, harmonicVars, callVars, frameVars, nodeVars, canvasVars, anchorVars, restVars>>

SpecPendulum == PendulumInit /\ [][PendulumNext]_vars

WaveArraysInit == WaveNew /\ ArraysStart /\ EpiIdle /\ CatIdle /\ PendulumIdle /\ ObjectsIdle /\ HarmonicsIdle /\ CallsIdle /\ FramesIdle /\ NodesIdle /\ CanvasIdle /\ AnchorsIdle /\ RestIdle

WaveArraysNext ==
    /\ \/ \E position \in PluckPositions, amplitude \in FiniteAmplitudes :
             PluckArray(position, amplitude)
       \/ \E frequency \in DriveFrequencies, t \in DriveTimes,
             amplitude \in FiniteDriveAmplitudes :
             DriveArray(frequency, t, amplitude)
       \/ \E dt \in FiniteTimeSteps : UpdateArray(dt)
       \/ ResetArray
       \/ GetPositions
    /\ UNCHANGED <<epiVars, catVars, pendulumVars, objectVars, harmonicVars, callVars, frameVars, nodeVars, canvasVars, anchorVars, restVars>>

SpecWaveArrays == WaveArraysInit /\ [][WaveArraysNext]_vars

HarmonicsInit == HarmonicsStart /\ WaveIdle /\ ArraysIdle /\ EpiIdle /\ CatIdle /\ PendulumIdle /\ ObjectsIdle /\ CallsIdle /\ FramesIdle /\ NodesIdle /\ CanvasIdle /\ AnchorsIdle /\ RestIdle

HarmonicsNext ==
    /\ AnalyzeHarmonics
    /\ UNCHANGED <<waveVars, epiVars, catVars, pendulumVars, objectVars, arrayVars, callVars, frameVars, nodeVars, canvasVars, anchorVars, restVars>>

SpecHarmonics == HarmonicsInit /\ [][HarmonicsNext]_vars

CallsInit == CallsStart /\ WaveIdle /\ ArraysIdle /\ HarmonicsIdle /\ EpiIdle /\ CatIdle /\ PendulumIdle /\ ObjectsIdle /\ FramesIdle /\ NodesIdle /\ CanvasIdle /\ AnchorsIdle /\ RestIdle

CallsNext ==
    /\ \/ \E cs \in CallChains, t \in Times : CallCalculateEpicyclePosition(cs, t)
       \/ \E cs \in CallChains, t \in Times : CallCalculateAllPositions(cs, t)
       \/ \E cs \in CallChains, dt \in Times : CallUpdateCircles(cs, dt)
    /\ UNCHANGED <<waveVars, epiVars, catVars, pendulumVars, objectVars, arrayVars, harmonicVars, frameVars, nodeVars, canvasVars, anchorVars, restVars>>

SpecCalls == CallsInit /\ [][CallsNext]_vars

FramesInit == FramesStart /\ WaveIdle /\ ArraysIdle /\ HarmonicsIdle /\ EpiIdle /\ CallsIdle /\ CatIdle /\ PendulumIdle /\ ObjectsIdle /\ NodesIdle /\ CanvasIdle /\ AnchorsIdle /\ RestIdle

FramesNext ==
    /\ \/ \E gap \in Gaps : WaveCanvasFrame(gap)
       \/ \E gap \in Gaps : WaveCanvasEarlierFrame(gap)
       \/ \E gap \in Gaps : EpicycleCanvasFrame(gap)
       \/ PendulumCanvasFrame
    /\ UNCHANGED <<waveVars, epiVars, catVars, pendulumVars, objectVars, arrayVars, harmonicVars, callVars, nodeVars, canvasVars, anchorVars, restVars>>

SpecFrames == FramesInit /\ [][FramesNext]_vars

ObjectsInit == ObjectsStart /\ WaveIdle /\ EpiIdle /\ CatIdle /\ PendulumIdle /\ ArraysIdle /\ HarmonicsIdle /\ CallsIdle /\ FramesIdle /\ NodesIdle /\ CanvasIdle /\ AnchorsIdle /\ RestIdle

ObjectsNext ==
    /\ \/ \E n \in 1 .. 2, r \in {I(0), I(1)} : CreateOverlaysCall(n, r)
       \/ \E i \in DOMAIN stateRefs, dt \in StepTimes : StepOverlayCall(i, dt)
       \/ \E dt \in StepTimes : UpdateCirclesCall(dt)
       \/ \E t \in StepTimes : CalculateAllPositionsCall(t)
    /\ UNCHANGED <<waveVars, epiVars, catVars, pendulumVars, arrayVars, harmonicVars, callVars, frameVars, nodeVars, canvasVars, anchorVars, restVars>>

SpecObjects == ObjectsInit /\ [][ObjectsNext]_vars

NodesInit == NodesStart /\ WaveIdle /\ ArraysIdle /\ HarmonicsIdle /\ EpiIdle /\ CallsIdle /\ CatIdle /\ PendulumIdle /\ ObjectsIdle /\ FramesIdle /\ CanvasIdle /\ AnchorsIdle /\ RestIdle

NodesNext ==
    /\ \/ GetNodes
       \/ GetAntinodes
    /\ UNCHANGED <<waveVars, epiVars, catVars, pendulumVars, objectVars, arrayVars, harmonicVars, callVars, frameVars, canvasVars, anchorVars, restVars>>

SpecNodes == NodesInit /\ [][NodesNext]_vars

CanvasInit == CanvasStart /\ WaveIdle /\ ArraysIdle /\ HarmonicsIdle /\ EpiIdle /\ CallsIdle /\ CatIdle /\ PendulumIdle /\ ObjectsIdle /\ FramesIdle /\ NodesIdle /\ AnchorsIdle /\ RestIdle

CanvasNext ==
    /\ \E gap \in CanvasGaps : EpicycleCanvasAnimate(gap)
    /\ UNCHANGED <<waveVars, epiVars, catVars, pendulumVars, objectVars, arrayVars, harmonicVars, callVars, frameVars, nodeVars, anchorVars, restVars>>

SpecEpicycleCanvas == CanvasInit /\ [][CanvasNext]_vars

AnchorsInit == AnchorsStart /\ WaveIdle /\ ArraysIdle /\ HarmonicsIdle /\ EpiIdle /\ CallsIdle /\ CatIdle /\ PendulumIdle /\ ObjectsIdle /\ FramesIdle /\ NodesIdle /\ CanvasIdle /\ RestIdle

AnchorsNext ==
    /\ \/ \E p \in PointerSpots, button \in {0, 2}, now \in MountTime .. MountTime + MaxClock :
              HandlePointerDown(p[1], p[2], button, now)
       \/ \E p \in PointerSpots : HandlePointerMove(p[1], p[2])
       \/ HandlePointerUp
       \/ \E p \in PointerSpots : HandleContextMenu(p[1], p[2])
    /\ UNCHANGED <<waveVars, epiVars, catVars, pendulumVars, objectVars, arrayVars, harmonicVars, callVars, frameVars, nodeVars, canvasVars, restVars>>

SpecAnchors == AnchorsInit /\ [][AnchorsNext]_vars

RestInit == RestStart /\ WaveIdle /\ ArraysIdle /\ HarmonicsIdle /\ EpiIdle /\ CallsIdle /\ CatIdle /\ PendulumIdle /\ ObjectsIdle /\ FramesIdle /\ NodesIdle /\ CanvasIdle /\ AnchorsIdle

RestNext ==
    /\ \E dt \in RestTimes : Rk4StepCall(dt)
    /\ UNCHANGED <<waveVars, epiVars, catVars, pendulumVars, objectVars, arrayVars, harmonicVars, callVars, frameVars, nodeVars, canvasVars, anchorVars>>

SpecRest == RestInit /\ [][RestNext]_vars

----------------------------------------------------------------------------
(* Claims about WaveString, checked under SpecWave *)

\* C1: after construction and after any sequence of pluck, drive, update and
\* reset calls the positions and the velocities of both end samples are 0.
C1_FixedEndpoints ==
    /\ positions[0] = I(0)
    /\ positions[numPoints - 1] = I(0)
    /\ velocities[0] = I(0)
    /\ velocities[numPoints - 1] = I(0)

C1_Witness ==
    /\ nCalls >= 2
    /\ call.op = "drive"
    /\ \E i \in Interior : positions[i] # I(0) /\ velocities[i] # I(0)

\* C3: right after update(dt), every sample has a finite position of
\* magnitude at most 500 and a finite velocity of magnitude at most 1000.
C3_UpdateBounded ==
    call.op = "update" =>
        \A i \in Indices :
            /\ isFinite(positions[i])
            /\ FLe(FAbs(positions[i]), I(500))
            /\ isFinite(velocities[i])
            /\ FLe(FAbs(velocities[i]), I(1000))

C3_Witness ==
    /\ call.op = "update"
    /\ \E i \in Interior : ~isFinite(old.positions[i]) /\ positions[i] = I(0)
    /\ \E i \in Interior : ~isFinite(old.velocities[i])

\* The value clamp(a, -50, 50) of a number a that is not NaN.
Clamp50(a) == IF FLt(a, I(-50)) THEN I(-50) ELSE IF FGt(a, I(50)) THEN I(50) ELSE a

\* pos is the triangle with value amp at index peak that falls linearly to 0
\* at index 0 and at index numPoints - 1.
IsTriangle(pos, peak, amp) ==
    \A i \in Indices :
        pos[i] = IF i = peak THEN amp
                 ELSE IF i < peak THEN FMul(amp, Q(i, peak))
                 ELSE FMul(amp, Q(numPoints - 1 - i, numPoints - 1 - peak))

\* The sample indices nearest to position * (numPoints - 1), position = n/d:
\* one index, or two when the point lies halfway between two samples.
NearestIdx(position) ==
    {j \in Indices :
        Abs(2 * position[1] * (numPoints - 1) - 2 * j * position[2]) <= position[2]}

\* floor(position * (numPoints - 1)), position = n/d.
FloorIdx(position) == (position[1] * (numPoints - 1)) \div position[2]

\* C7 as stated: pluck(p, A) leaves the triangle whose peak clamp(A, -50, 50)
\* is at the sample nearest to p * (numPoints - 1) (read here only for the
\* calls whose nearest samples are interior ones, where such a triangle
\* exists; either of two equally near samples is accepted).
C7_Original ==
    (/\ call.op = "pluck"
     /\ call.amplitude # NaN
     /\ NearestIdx(call.position) \subseteq Interior) =>
        \E peak \in NearestIdx(call.position) :
            IsTriangle(positions, peak, Clamp50(call.amplitude))

\* C7 (amended): pluck(p, A) with idx = floor(p * (numPoints - 1)) interior
\* leaves the triangle whose peak clamp(A, -50, 50) is at idx, so every
\* displacement has magnitude at most 50; when idx is 0 or numPoints - 1 the
\* positions are left as they were.
C7_PluckTriangle ==
    (call.op = "pluck" /\ call.amplitude # NaN) =>
        LET idx == FloorIdx(call.position)
        IN  IF 0 < idx /\ idx < numPoints - 1
            THEN /\ IsTriangle(positions, idx, Clamp50(call.amplitude))
                 /\ \A i \in Indices : FLe(FAbs(positions[i]), I(50))
            ELSE positions = old.positions

C7_Witness ==
    /\ call.op = "pluck"
    /\ call.amplitude = I(-80)
    /\ numPoints = 5
    /\ FloorIdx(call.position) = 2
    /\ NearestIdx(call.position) = {3}
    /\ positions[2] = I(-50)
    /\ positions[3] = I(-25)
    /\ old.positions[2] # I(-50)

\* C8 as stated: after pluck(p, A), for every p in [0, 1], the velocity of
\* every interior sample is 0.
C8_Original ==
    call.op = "pluck" => \A i \in Interior : velocities[i] = I(0)

\* C8 (amended): after pluck(p, A) with idx = floor(p * (numPoints - 1))
\* interior, the velocity of every interior sample is 0 whatever it was
\* before; when idx is 0 or numPoints - 1 the velocities are left as they were.
C8_PluckVelocities ==
    call.op = "pluck" =>
        LET idx == FloorIdx(call.position)
        IN  IF 0 < idx /\ idx < numPoints - 1
            THEN \A i \in Interior : velocities[i] = I(0)
            ELSE velocities = old.velocities

C8_Witness ==
    /\ call.op = "pluck"
    /\ 0 < FloorIdx(call.position)
    /\ FloorIdx(call.position) < numPoints - 1
    /\ \E i \in Interior : old.velocities[i] # I(0) /\ velocities[i] = I(0)

\* The interior samples among floor(N/4), floor(N/2), floor(3N/4).
DrivenSamples ==
    {numPoints \div 4, numPoints \div 2, (3 * numPoints) \div 4} \cap Interior

\* C9: drive(frequency, time, amplitude) leaves every position unchanged and
\* adds amplitude * sin(2 pi frequency time) * 0.02 once to the velocity of
\* each driven interior sample; all other velocities are unchanged.
C9_DriveFrame ==
    call.op = "drive" =>
        LET amount == FMul(FMul(call.amplitude,
                                MathSin(FMul(I(4), FMul(call.frequency, call.time)))),
                           Q(1, 50))
        IN  /\ positions = old.positions
            /\ \A i \in Indices :
                   velocities[i] = IF i \in DrivenSamples
                                   THEN FAdd(old.velocities[i], amount)
                                   ELSE old.velocities[i]

C9_Witness ==
    /\ call.op = "drive"
    /\ Cardinality(DrivenSamples) = 3
    /\ \A i \in DrivenSamples :
           isFinite(velocities[i]) /\ velocities[i] # old.velocities[i]
    /\ \E i \in DrivenSamples : old.velocities[i] # I(0)

----------------------------------------------------------------------------
(* Claims about the epicycles, checked under SpecEpicycle *)

\* C2: for a non-empty chain and a time t, calculateAllPositions(circles, t)
\* equals calculateAllPositions(updateCircles(circles, t), 0) point for point.
C2_PhaseAdvanceAgrees ==
    (allPositions # <<>> /\ advanced # <<>> /\ deltaTime = time) =>
        calculateAllPositions(advanced, I(0)) = allPositions

C2_Witness ==
    /\ allPositions # <<>>
    /\ advanced # <<>>
    /\ deltaTime = time
    /\ time = I(3)
    /\ Len(circles) = 3
    /\ allPositions # calculateAllPositions(circles, I(0))

-----------------------------------------------------------------------------
(* Claims about calculateCatenary, checked under SpecCatenary *)

\* 1000 * chainLength <= 1001 * sqrt(dx^2 + dy^2), in integers of the
\* squares: the chain is no longer than 1.001 straight-line distances.
WithinTautMargin ==
    LET dx == FSub(anchor2.x, anchor1.x)
        dy == FSub(anchor2.y, anchor1.y)
        l2 == FMul(FMul(chainLength, I(1000)), FMul(chainLength, I(1000)))
        s2 == FMul(I(1001 * 1001), FAdd(FMul(dx, dx), FMul(dy, dy)))
    IN  FLe(chainLength, I(0)) \/ FLe(l2, s2)

\* anchor1 + (i / 100) * (anchor2 - anchor1)
Interpolated(i) ==
    [x |-> FAdd(anchor1.x, FMul(Q(i, 100), FSub(anchor2.x, anchor1.x))),
     y |-> FAdd(anchor1.y, FMul(Q(i, 100), FSub(anchor2.y, anchor1.y)))]

\* The point is the pair of numbers p.
IsPoint(pt, p) == pt.x = p.x /\ pt.y = [rat |-> p.y, cosh |-> {}]

\* C5: when chainLength <= 1.001 * straightLineDistance, whatever the height
\* difference of the anchors, calculateCatenary returns the straight-line
\* interpolation: point i is anchor1 + (i/100) * (anchor2 - anchor1) for
\* i = 0..100, so every point is colinear with the two anchors.
C5_TautStraightLine ==
    (pc = "done" /\ WithinTautMargin) =>
        /\ DOMAIN points = 1 .. 101
        /\ \A i \in 0 .. 100 :
              /\ IsPoint(points[i + 1], Interpolated(i))
              /\ FMul(FSub(points[i + 1].x, anchor1.x),
                      FSub(anchor2.y, anchor1.y))
                 = FMul(FSub(points[i + 1].y.rat, anchor1.y),
                        FSub(anchor2.x, anchor1.x))

\* A chain exactly 1.001 times as long as the 3-4-5 separation of anchors at
\* different heights came back as the straight line.
C5_Witness ==
    /\ anchor1 = Point(I(0), I(0))
    /\ anchor2 = Point(I(3), I(4))
    /\ chainLength = Q(1001, 200)
    /\ pc = "done"
    /\ branch = "taut"
    /\ IsPoint(points[51], Point(Q(3, 2), I(2)))
    /\ IsPoint(points[101], Point(I(3), I(4)))

\* C6: in every branch (taut, symmetric, asymmetric) calculateCatenary
\* returns exactly 101 points whose x-coordinates are
\* anchor1.x + (i/100) * (anchor2.x - anchor1.x) for i = 0..100, whose first
\* point is anchor1 and whose last point is anchor2.
C6_Endpoints ==
    pc = "done" =>
        /\ DOMAIN points = 1 .. 101
        /\ \A i \in 0 .. 100 : points[i + 1].x = Interpolated(i).x
        /\ IsPoint(points[1], anchor1)
        /\ IsPoint(points[101], anchor2)

-----------------------------------------------------------------------------
(* Claims about createOverlays, checked under SpecPendulum *)

\* d degrees as an angle: a quarter turn is 90 degrees.
Degrees(d) == FDiv(d, I(90))

\* Element i of the result (counted from zero) is baseState with both angles
\* increased by ((i - count/2) / count) * randomness degrees.
IsPerturbed(i) ==
    LET d == FMul(FDiv(FSub(FMul(I(2), I(i)), I(count)), FMul(I(2), I(count))),
                  randomness)
    IN  /\ overlays[i + 1].theta1 = FAdd(baseState.theta1, Degrees(d))
        /\ overlays[i + 1].theta2 = FAdd(baseState.theta2, Degrees(d))
        /\ overlays[i + 1].omega1 = baseState.omega1
        /\ overlays[i + 1].omega2 = baseState.omega2

\* C10 as stated: createOverlays returns exactly count states for every
\* non-negative integer count; element 0 equals baseState, and for
\* 1 <= i < count element i has theta1 and theta2 each increased by
\* ((i - count/2)/count) * randomness degrees and the angular velocities of
\* baseState.
C10_Original ==
    overlays # <<>> =>
        /\ Len(overlays) = count
        /\ count > 0 => overlays[1] = baseState
        /\ \A i \in 1 .. count - 1 : IsPerturbed(i)

\* C10: createOverlays returns exactly count states for every count >= 1 and
\* the single state baseState for count = 0; element 0 equals baseState, and
\* for 1 <= i < count element i has theta1 and theta2 each increased by
\* ((i - count/2)/count) * randomness degrees and the angular velocities of
\* baseState.
C10_CreateOverlays ==
    overlays # <<>> =>
        /\ count >= 1 => Len(overlays) = count
        /\ count = 0 => overlays = <<baseState>>
        /\ overlays[1] = baseState
        /\ \A i \in 1 .. count - 1 : IsPerturbed(i)

\* Four overlays of one degree of spread: the last is a quarter of a degree
\* beyond the base state.
C10_Witness ==
    /\ count = 4
    /\ randomness = I(1)
    /\ baseState = PendulumState(I(1), Q(1, 2), I(0), I(0))
    /\ Len(overlays) = 4
    /\ overlays[2] = PendulumState(Q(359, 360), Q(179, 360), I(0), I(0))
    /\ overlays[4] = PendulumState(Q(361, 360), Q(181, 360), I(0), I(0))

----------------------------------------------------------------------------
(* Claims about the objects passed to and returned by the pendulum and     *)
(* epicycle functions, checked under SpecObjects                           *)

\* C11: rk4Step, calculateAllPositions and updateCircles never modify their
\* arguments: every object that existed before the call, the arguments
\* included, holds the same values after it; the objects rk4Step and
\* updateCircles return are newly built; and stepping one overlay state
\* leaves every other overlay state as it was.
C11_ArgumentsKept ==
    [][lastCall'.op \in {"rk4Step", "calculateAllPositions", "updateCircles"} =>
          /\ Len(heap') >= Len(heap)
          /\ \A ref \in 1 .. Len(heap) : heap'[ref] = heap[ref]
          /\ \A k \in DOMAIN lastCall'.result : lastCall'.result[k] > Len(heap)
          /\ lastCall'.op = "rk4Step" =>
                \A j \in DOMAIN stateRefs : j # lastCall'.index =>
                    /\ stateRefs'[j] = stateRefs[j]
                    /\ heap'[stateRefs'[j]] = heap[stateRefs[j]]]_vars

\* rk4Step has moved the initialState object's overlay while another overlay
\* with the same values exists, and updateCircles has turned a chain.
C11_Witness ==
    /\ lastCall.op = "rk4Step"
    /\ lastCall.args = <<initialState>>
    /\ Len(stateRefs) >= 2
    /\ heap[lastCall.result[1]] # heap[initialState]
    /\ heap[stateRefs[2]] = heap[initialState]
    /\ \E i \in DOMAIN circleRefs :
          /\ circleRefs[i] # i
          /\ heap[circleRefs[i]].angle # heap[i].angle

----------------------------------------------------------------------------
(* Claims about WaveString called with finite arguments, checked under     *)
(* SpecWaveArrays                                                          *)

\* C12: the sequence getPositions() returned is a snapshot: whatever pluck,
\* drive, update and reset calls follow, it holds the values it held when
\* it was returned.
C12_Snapshot == returned.array # 0 => returned.now = returned.at

----------------------------------------------------------------------------
(* Claims about analyzeHarmonics, checked under SpecHarmonics *)

\* The samples that are finite, by index (from 0).
FiniteSamples == {i \in 0 .. Len(samples) - 1 : isFinite(samples[i + 1])}

\* The sum over the indices in F of samples[i] * sin(n * pi * i / (N - 1)).
RECURSIVE SineSum(_, _)
SineSum(n, F) ==
    IF F = {} THEN I(0)
    ELSE LET i == CHOOSE j \in F : \A l \in F : l <= j
         IN  FAdd(SineSum(n, F \ {i}),
                  FMul(samples[i + 1], MathSin(Q(2 * n * i, Len(samples) - 1))))

\* C13: analyzeHarmonics(positions, k) returns exactly k amplitudes, each
\* finite and at least 0, also for NaN and infinite samples and for
\* sequences of length 0 or 1; a sample that is not finite contributes
\* nothing: amplitude n is |sum over the finite samples| / length, and 0
\* where that is not a finite number.
C13_Harmonics ==
    harmonics # <<"none">> =>
        /\ Len(harmonics) = numHarmonics
        /\ \A n \in 1 .. numHarmonics :
              /\ isFinite(harmonics[n])
              /\ FLe(I(0), harmonics[n])
              /\ harmonics[n] =
                    IF Len(samples) <= 1 THEN I(0)
                    ELSE FDiv(FAbs(SineSum(n, FiniteSamples)), I(Len(samples)))

\* Three samples, the middle one finite and an end one not, give a first
\* harmonic above 0.
C13_Witness ==
    /\ harmonics # <<"none">>
    /\ Len(samples) = 3
    /\ numHarmonics >= 2
    /\ \E i \in 1 .. 3 : ~isFinite(samples[i])
    /\ FLt(I(0), harmonics[1])
    /\ harmonics[2] = I(0)

----------------------------------------------------------------------------
(* Claims about calls of the epicycle functions, checked under SpecCalls *)

\* C14: no call ends with an exception: calculateAllPositions and
\* calculateEpicyclePosition return a result for every chain of circles,
\* the empty chain included.
C14_NoException == outcome.threw = "none"

----------------------------------------------------------------------------
(* Claims about the animation frames, checked under SpecFrames *)

\* C15: in the wave and epicycle drivers the frame delta is at most 0.016 s
\* however long the gap since the previous frame, and each of the 4 update
\* sub-steps of a WaveCanvas frame is given a dt of at most 0.012.
C15_FrameDeltaClamped ==
    driver \in {"WaveCanvas", "WaveCanvasEarlier", "EpicycleCanvas"} =>
        /\ FLe(frameDelta, Q(16, 1000))
        /\ driver = "WaveCanvas" =>
              \A k \in DOMAIN engineCalls :
                  engineCalls[k].fn = "update" => FLe(engineCalls[k].dt, Q(12, 1000))

\* The entries of a buffer are the ones pushed by the latest frames, in the
\* order they were pushed.
MostRecent(buffer) ==
    \A k \in DOMAIN buffer : buffer[k].frame = frames - Len(buffer) + k

\* C16: after any number of frames and for every trailLength >= 0, each
\* pendulum trail and the epicycle trail holds at most trailLength points
\* and the energy history at most 200 entries, and what a buffer holds are
\* the most recent entries in insertion order.
C16_BuffersBounded ==
    /\ \A idx \in DOMAIN trails :
          /\ Len(trails[idx]) <= trailLength
          /\ MostRecent(trails[idx])
    /\ Len(energyHistory) <= maxEnergyHistory
    /\ MostRecent(energyHistory)

----------------------------------------------------------------------------
(* Claims about WaveString.update, checked under SpecWave *)

\* The acceleration of interior sample i before the last call:
\* (tension / mass) * 0.1 * (y[i+1] - 2 y[i] + y[i-1]) / dx^2
\* - damping * v[i] * 20, with dx = length / (numPoints - 1).
AccelerationBefore(i) ==
    LET y == old.positions
        curvature == FDiv(FAdd(FAdd(y[i + 1], y[i - 1]), FMul(I(-2), y[i])),
                          FMul(FDiv(length, I(numPoints - 1)),
                               FDiv(length, I(numPoints - 1))))
    IN  FAdd(FMul(FMul(FDiv(tension, mass), Q(1, 10)), curvature),
             FNeg(FMul(FMul(damping, old.velocities[i]), I(20))))

\* v_i + a_i * dt, from the state before the last call
VelocityComputed(i) ==
    FAdd(old.velocities[i], FMul(AccelerationBefore(i), call.dt))

\* y_i + v_i' * dt, from the state before the last call
PositionComputed(i) ==
    FAdd(old.positions[i], FMul(VelocityComputed(i), call.dt))

InRange(x, bound) == isFinite(x) /\ FLe(FAbs(x), I(bound))

\* C18: update(dt) is a synchronous step: for each interior point i the
\* acceleration a_i comes from the positions at i-1, i, i+1 and the velocity
\* at i as they were before the call, the new velocity is v_i + a_i*dt and
\* the new position is y_i + (new velocity)*dt; these are the values the
\* point has after the call wherever the stability check does not reset it.
C18_SynchronousStep ==
    call.op = "update" =>
        \A i \in Interior :
            (InRange(PositionComputed(i), 500) /\ InRange(VelocityComputed(i), 1000)) =>
                /\ velocities[i] = VelocityComputed(i)
                /\ positions[i] = PositionComputed(i)

\* An update moved a sample whose left neighbour moved in the same call:
\* the sample's result is computed from the neighbour's old position.
C18_Witness ==
    /\ call.op = "update"
    /\ \E i \in Interior :
          /\ i - 1 \in Interior
          /\ positions[i - 1] # old.positions[i - 1]
          /\ old.velocities[i] # I(0)
          /\ velocities[i] # old.velocities[i]
          /\ positions[i] # old.positions[i]
          /\ positions[i] # I(0)

\* C19: whenever update computes a non-finite or out-of-range value for an
\* interior point (|y| > 500 or |v| > 1000), the point ends the update with
\* displacement 0 and velocity 0, also when only the velocity is out of
\* range.
C19_ResetToZero ==
    call.op = "update" =>
        \A i \in Interior :
            (~InRange(PositionComputed(i), 500) \/ ~InRange(VelocityComputed(i), 1000)) =>
                /\ positions[i] = I(0)
                /\ velocities[i] = I(0)

----------------------------------------------------------------------------
(* Claims about the displacements of a WaveString called with finite       *)
(* arguments, checked under SpecWaveArrays                                 *)

\* C20: in every state reached from a fresh WaveString by pluck, drive,
\* update and reset calls with finite arguments, every displacement that
\* getPositions() exposes is finite and of magnitude at most 500, after
\* pluck and drive as well as after update.
C20_DisplacementsBounded ==
    /\ \A i \in Indices : InRange(positions[i], 500)
    /\ \A i \in DOMAIN returned.now : InRange(returned.now[i], 500)

\* A drive call on a string that an update has carried beyond the range of
\* a pluck, seen through an array that getPositions returned.
C20_Witness ==
    /\ call.op = "drive"
    /\ returned.array = positionsArray
    /\ \E i \in Interior :
          /\ FGt(FAbs(positions[i]), I(50))
          /\ velocities[i] # I(0)
----------------------------------------------------------------------------
(* C21: rk4Step is the classical Runge-Kutta combination *)

\* state + h * k in each of the four components
StatePlus(s, h, k) ==
    [theta1 |-> FAdd(s.theta1, FMul(h, k.theta1)),
     theta2 |-> FAdd(s.theta2, FMul(h, k.theta2)),
     omega1 |-> FAdd(s.omega1, FMul(h, k.omega1)),
     omega2 |-> FAdd(s.omega2, FMul(h, k.omega2))]

\* k1 + 2*k2 + 2*k3 + k4 in each of the four components
WeightedSlopes(k1, k2, k3, k4) ==
    LET W(a, b, c, d) == FAdd(FAdd(FAdd(a, FMul(I(2), b)), FMul(I(2), c)), d)
    IN  [theta1 |-> W(k1.theta1, k2.theta1, k3.theta1, k4.theta1),
         theta2 |-> W(k1.theta2, k2.theta2, k3.theta2, k4.theta2),
         omega1 |-> W(k1.omega1, k2.omega1, k3.omega1, k4.omega1),
         omega2 |-> W(k1.omega2, k2.omega2, k3.omega2, k4.omega2)]

\* The four slopes of the reference method for f = derivatives(., params)
\* make the predicate R(k1, k2, k3, k4) true.
ReferenceSlopes(s, p, dt, R(_, _, _, _)) ==
    \E k1 \in {derivatives(s, p)} :
    \E k2 \in {derivatives(StatePlus(s, FDiv(dt, I(2)), k1), p)} :
    \E k3 \in {derivatives(StatePlus(s, FDiv(dt, I(2)), k2), p)} :
    \E k4 \in {derivatives(StatePlus(s, dt, k3), p)} :
        R(k1, k2, k3, k4)

\* C21: the state returned by rk4Step(state, params, dt) is
\* state + (dt/6)*(k1 + 2*k2 + 2*k3 + k4) in each component, with
\* k1 = f(state), k2 = f(state + (dt/2)*k1), k3 = f(state + (dt/2)*k2),
\* k4 = f(state + dt*k3) and f = derivatives(., params); the angles are
\* neither clamped nor wrapped.
C21_ReferenceRk4 ==
    lastCall.op = "rk4Step" =>
        LET state  == heap[lastCall.args[1]]
            result == heap[lastCall.result[1]]
            Combined(k1, k2, k3, k4) ==
                result = StatePlus(state, FDiv(lastCall.dt, I(6)),
                                   WeightedSlopes(k1, k2, k3, k4))
        IN  ReferenceSlopes(state, pendulumParams, lastCall.dt, Combined)

\* rk4Step has run on a state where the four slopes are pairwise different.
C21_Witness ==
    /\ lastCall.op = "rk4Step"
    /\ LET Distinct(k1, k2, k3, k4) == Cardinality({k1, k2, k3, k4}) = 4
       IN  ReferenceSlopes(heap[lastCall.args[1]], pendulumParams, lastCall.dt,
                           Distinct)

----------------------------------------------------------------------------
(* C22: the order of the branches of calculateCatenary *)

\* The anchors are less than one unit apart in height.
NearlyLevel == FLt(FAbs(FSub(anchor2.y, anchor1.y)), I(1))

\* C22: calculateCatenary takes exactly one branch, in a fixed order: the
\* straight line iff chainLength <= 1.001 * straightLineDistance; otherwise
\* the symmetric solver iff |anchor2.y - anchor1.y| < 1; otherwise the
\* asymmetric solver.  Level anchors with a chain too short therefore get
\* the straight line and no solver runs for them.
C22_BranchOrder ==
    pc # "call" =>
        /\ branch \in {"taut", "symmetric", "asymmetric"}
        /\ branch = "taut" <=> WithinTautMargin
        /\ branch = "symmetric" <=> ~WithinTautMargin /\ NearlyLevel
        /\ branch = "asymmetric" <=> ~WithinTautMargin /\ ~NearlyLevel
        /\ branch = "taut" =>
              pc = "done" /\ solved.newton = 0 /\ solved.iterations = 0
        /\ branch = "symmetric" => pc \in {"newton", "done"} /\ solved.iterations = 0
        /\ (branch = "asymmetric" /\ pc = "done") => solved.iterations > 0

\* Level anchors five apart with a chain of length four: the straight line.
C22_Witness ==
    /\ pc = "done"
    /\ anchor1.y = anchor2.y
    /\ anchor1.x # anchor2.x
    /\ FLt(chainLength, FAbs(FSub(anchor2.x, anchor1.x)))
    /\ FGt(chainLength, I(0))
    /\ branch = "taut"
    /\ solved = NoSolution

----------------------------------------------------------------------------
(* C23: the parameter solveCatenaryParameterSymmetric returns *)

\* solveCatenaryParameterSymmetric has just returned solved.a: to the
\* sampling loop of the symmetric branch, or to the asymmetric solver before
\* its first iteration.
NewtonReturned ==
    \/ branch = "symmetric" /\ pc = "done"
    \/ branch = "asymmetric" /\ pc = "adjust" /\ solved.iterations = 0

\* C23: solveCatenaryParameterSymmetric ends after at most 100 Newton
\* iterations and, for horizontalDist > 0 and whatever values f and f' take,
\* returns a parameter a with 0 < a < 100 * horizontalDist.
C23_ParameterInRange ==
    LET horizontalDist == FAbs(FSub(anchor2.x, anchor1.x))
    IN  (NewtonReturned /\ FGt(horizontalDist, I(0))) =>
            /\ solved.newton <= maxIterationsSymmetric
            /\ FGt(solved.a, I(0))
            /\ FLt(solved.a, FMul(I(100), horizontalDist))

----------------------------------------------------------------------------
(* C24: the parameter of solveCatenaryParameterAsymmetric *)

\* C24: in solveCatenaryParameterAsymmetric, after each adjustment and in
\* the value returned, a lies in [10, 10 * horizontalDist] (also when
\* horizontalDist < 1), x2 - x1 equals horizontalDist, and the loop runs at
\* most 50 iterations.
C24_ParameterClamped ==
    LET horizontalDist == FAbs(FSub(anchor2.x, anchor1.x))
    IN  (branch = "asymmetric" /\ solved.iterations > 0) =>
            /\ solved.iterations <= maxIterationsAsymmetric
            /\ FLe(I(10), solved.a)
            /\ FLe(solved.a, FMul(I(10), horizontalDist))
            /\ FSub(solved.x2, solved.x1) = horizontalDist

----------------------------------------------------------------------------
(* C25: getNodes and getAntinodes, checked under SpecNodes *)

\* C25: for harmonic h >= 1 and numPoints N >= 2, getNodes(h, N) returns
\* h + 1 non-decreasing indices that start at 0 and end at N - 1;
\* getAntinodes(h, N) returns h indices within [0, N - 1]; and the i-th
\* antinode lies between the i-th and the (i+1)-th node, ends included.
C25_NodesAndAntinodes ==
    /\ "getNodes" \in nodeCalls =>
          /\ Len(nodes) = nodeHarmonic + 1
          /\ nodes[1] = I(0)
          /\ nodes[nodeHarmonic + 1] = I(nodePoints - 1)
          /\ \A i \in 1 .. nodeHarmonic :
                /\ nodes[i][2] = 1
                /\ nodes[i][1] <= nodes[i + 1][1]
    /\ "getAntinodes" \in nodeCalls =>
          /\ Len(antinodes) = nodeHarmonic
          /\ \A i \in 1 .. nodeHarmonic :
                /\ antinodes[i][2] = 1
                /\ antinodes[i][1] \in 0 .. nodePoints - 1
    /\ nodeCalls = {"getNodes", "getAntinodes"} =>
          \A i \in 1 .. nodeHarmonic :
              /\ nodes[i][1] <= antinodes[i][1]
              /\ antinodes[i][1] <= nodes[i + 1][1]

\* Both functions have run for the third harmonic of an eight-point string:
\* nodes 0, 2, 4, 7 and antinodes 1, 3, 5.
C25_Witness ==
    /\ nodeHarmonic = 3
    /\ nodePoints = 8
    /\ nodeCalls = {"getNodes", "getAntinodes"}
    /\ nodes = <<I(0), I(2), I(4), I(7)>>
    /\ antinodes = <<I(1), I(3), I(5)>>

----------------------------------------------------------------------------
(* C26: the epicycle frame driver, checked under SpecEpicycleCanvas *)

\* The sum of the frames' deltas, in s: lastTimeRef advances by each gap.
ElapsedSeconds == FDiv(I(canvasLastTime), I(1000))

\* C26: after frames whose deltas sum to T, the phase used to place circle i
\* (its current angle plus its speed times the time passed to
\* calculateAllPositions) is initialAngle_i + speed_i * T, and the positions
\* drawn are those of the absolute-time model at T: the rotation for the
\* elapsed time is applied exactly once.
C26_PhaseAppliedOnce ==
    /\ \A i \in DOMAIN canvasCircles :
          FAdd(canvasCircles[i].angle, FMul(canvasCircles[i].speed, canvasTime))
          = FAdd(initialCircles[i].angle,
                 FMul(initialCircles[i].speed, ElapsedSeconds))
    /\ canvasDrawn = calculateAllPositions(initialCircles, ElapsedSeconds)

----------------------------------------------------------------------------
(* C27: the overlays seed different trajectories *)

\* C27: for count >= 2 and randomness # 0 the states createOverlays returns
\* are pairwise different in their angles: no overlay coincides with
\* baseState or with another overlay.
C27_OverlaysDistinct ==
    (overlays # <<>> /\ count >= 2 /\ randomness # I(0)) =>
        \A i, j \in DOMAIN overlays :
            i # j => \/ overlays[i].theta1 # overlays[j].theta1
                     \/ overlays[i].theta2 # overlays[j].theta2

----------------------------------------------------------------------------
(* C28: the anchors of CatenaryCanvas, checked under SpecAnchors *)

\* C28: starting from the two initial anchors, after any sequence of
\* pointer-down, pointer-move, pointer-up and right-click events the anchor
\* list holds at least 2 anchors.
C28_AtLeastTwoAnchors == Len(anchorList) >= 2

----------------------------------------------------------------------------
(* C29: the hanging rest state under rk4Step, checked under SpecRest *)

\* den1 and den2 of derivatives at the rest state, where cos(delta) = 1.
RestDen1 ==
    FSub(FMul(FAdd(restParams.m1, restParams.m2), restParams.L1),
         FMul(restParams.m2, restParams.L1))

RestDen2 == FMul(FDiv(restParams.L2, restParams.L1), RestDen1)

FiniteParams ==
    \A f \in {"L1", "L2", "m1", "m2", "g", "damping"} : isFinite(restParams[f])

----------------------------------------------------------------------------
(* C30: the two epicycle position functions, checked under SpecCalls *)

\* C30: for every non-empty chain and every time t,
\* calculateEpicyclePosition(circles, t) is the last point of
\* calculateAllPositions(circles, t).
C30_TipIsLastPoint ==
    LET cs == invoked.circles
        t  == invoked.time
    IN  /\ (invoked.fn = "calculateEpicyclePosition" /\ cs # <<>>) =>
              /\ outcome.threw = "none"
              /\ outcome.value
                 = calculateAllPositions(cs, t)[Len(calculateAllPositions(cs, t))]
        /\ (invoked.fn = "calculateAllPositions" /\ cs # <<>>) =>
              /\ outcome.threw = "none"
              /\ outcome.value[Len(outcome.value)]
                 = calculateEpicyclePosition(cs, t)

\* calculateEpicyclePosition has returned the tip of the four-circle chain
\* a quarter turn on: (400, 300 + 120 - 70 - 40 - 20).
C30_Witness ==
    /\ invoked.fn = "calculateEpicyclePosition"
    /\ Len(invoked.circles) = 4
    /\ invoked.time = I(1)
    /\ outcome = Returned(Point(I(400), I(290)))

====
